---- MODULE Spec2Model ----
(***************************************************************************)
(* Overtime calculator, entry validator, add-entry dialog, Record Store,   *)
(* input sanitizer, rate limiter and authentication of the overtime        *)
(* tracking application.  Each part has its own specification (Spec,       *)
(* SpecCalc, SpecStore, SpecSanitize, SpecLimiter, SpecAuth) over the      *)
(* variables of the module; the variables of the other parts stay as       *)
(* constructed.                                                            *)
(*                                                                         *)
(* Units.  Hours are kept in hundredths of an hour and money in cents, so  *)
(* that every value the code rounds with Math.round(x * 100) / 100 is an   *)
(* integer here.  Instants are milliseconds since the epoch, as in JS.     *)
(*                                                                         *)
(* Strings.  A form value is a record: k is the shape of the text          *)
(* ("absent" = null, "empty" = "", "time" = digits ':' two digits,         *)
(* "timesec" = a time followed by ':' and two digits of seconds, "date" =  *)
(* YYYY-MM-DD, "text" = any other text), h/m the numbers of a time, w the  *)
(* number of hour digits, d the day number of a date, real whether the     *)
(* date exists in the calendar, pad whether the text carries surrounding   *)
(* whitespace.                                                             *)
(***************************************************************************)
EXTENDS Integers, Sequences, FiniteSets, TLC

VARIABLES
    cIn,          \* calculator check: the arguments (startTime, endTime, hasLunch)
    cOut,         \* calculator check: <<>> before the call, <<results>> after it
    user,         \* useAuth().user: Null or Some(user id)
    open,         \* AddOvertimeDialog: the dialog is open (its form is mounted)
    isLoading,    \* AddOvertimeDialog: isLoading
    lunchDiscount,\* AddOvertimeDialog: lunchDiscount (the checkbox)
    calculation,  \* AddOvertimeDialog: calculation, Null or Some(record)
    form,         \* the values of the form's date, startTime and endTime inputs
    today,        \* the local calendar day of the system clock (a day number)
    tz,           \* local time minus UTC, in hours
    inflight,     \* number of insert calls awaiting the Record Store's answer
    lastSubmit,   \* what handleSubmit did in the last step ("none": no call)
    lastInsert,   \* the row handed to insert() in the last step, if any
    toast,        \* the message shown by the last step ("none": no message)
    refreshed,    \* AddOvertimeDialog: the last step called onSuccess()
    records,      \* Record Store: overtime_records, record id -> Null or Some(row)
    dbToday,      \* Record Store: CURRENT_DATE (a day number, UTC)
    lastOp,       \* what the last call on the Record Store was and did
    mounts,       \* useSecurity: how many mounted uses of the hook have patched console
    frames,       \* the stack of console method calls in progress, innermost last
    lastRun,      \* the call last made from outside and what it has done so far
    rate_limits,  \* public.rate_limits: a set of rows [key, window_start, attempts]
    sqlNow,       \* now() of the database, in minutes
    limitArgs,    \* p_max_attempts and p_window_minutes of the calls
    sessions,     \* per session, Null or Some of the call of check_rate_limit it
                  \* is in, between its SELECT and its IF
    trues,        \* per key and minute, the calls begun at that minute that
                  \* returned TRUE
    lastCheck,    \* what the last call of check_rate_limit returned and found
    sessionUser,  \* AuthProvider: user, Null or Some(user id)
    isAdmin,      \* AuthProvider: isAdmin
    timers,       \* the users whose setTimeout(checkAdminRole, 0) has not fired
    lookups,      \* the selects on user_roles awaited: [user, data]
    booted,       \* supabase.auth.getSession() has resolved
    adminDb,      \* Admin page: the profiles and overtime records of the store
    employees,    \* Admin: employees (the ids of the profiles loaded)
    loadEmployees,\* Admin: employees as the running fetchAllData closed over it
    load,         \* Admin: where each fetch of fetchAllData is
    adminLoading, \* Admin: isLoading
    stats,        \* Admin: stats
    selectedEmployee, \* Admin: selectedEmployee, "" or a user id
    dateFilter,   \* Admin: dateFilter, "" or "YYYY-MM"
    shown,        \* Admin: records
    fetches,      \* Admin: the selects of fetchEmployeeRecords awaited
    lastExport,   \* Admin: Null or Some of the last CSV downloaded
    recOpen,      \* OvertimeRecordActions: "edit" (isEditOpen), "delete"
                  \* (isDeleteOpen) or "none"
    recLoading,   \* OvertimeRecordActions: isLoading
    recCall,      \* Null or Some of the update or delete call awaited
    editData,     \* OvertimeRecordActions: editData
    recToast,     \* the message shown by the last step of the component
    recRefreshed, \* the last step called onUpdate() or onDelete()
    sIn,          \* sanitizeInput check: the argument
    sOut,         \* sanitizeInput check: <<>> before the call, then the results
                  \* of the call and of a second call on the first result
    attempts,     \* RateLimiter: attempts, key -> Null or Some([count, resetTime])
    now,          \* Date.now()
    grants,       \* per key and instant, the isAllowed calls that returned true
                  \* since the key was last reset
    lastCall,     \* the last call on the RateLimiter and the map before it
    render,       \* AuthProvider: the number of its latest render
    authLoading,  \* Auth page: isLoading
    call,         \* the signIn / signUp call awaiting the identity service
    identityCalls,\* per key, Null or Some([count, resetTime]): the calls of the
                  \* identity service made for the key since its last success,
                  \* in the window of windowMs that the first of them began
    lastAuth      \* what the last step of the Auth page or the provider did

calcVars == <<cIn, cOut>>
dialogVars == <<user, open, isLoading, lunchDiscount, calculation, form,
                today, tz, inflight, lastSubmit, lastInsert, toast, refreshed>>
storeVars == <<records, dbToday, lastOp>>
sanitizeVars == <<sIn, sOut>>
limiterVars == <<attempts, now, grants, lastCall>>
authVars == <<render, authLoading, call, identityCalls, lastAuth>>
consoleVars == <<mounts, frames, lastRun>>
rateVars == <<rate_limits, sqlNow, limitArgs, sessions, trues, lastCheck>>
roleVars == <<sessionUser, isAdmin, timers, lookups, booted>>
adminVars == <<adminDb, employees, loadEmployees, load, adminLoading, stats, selectedEmployee, dateFilter, shown, fetches, lastExport>>
recVars == <<recOpen, recLoading, recCall, editData, recToast, recRefreshed>>
vars == <<recOpen, recLoading, recCall, editData, recToast, recRefreshed,
          adminDb, employees, loadEmployees, load, adminLoading, stats, selectedEmployee, dateFilter, shown, fetches, lastExport,
          sessionUser, isAdmin, timers, lookups, booted,
          rate_limits, sqlNow, limitArgs, sessions, trues, lastCheck,
          mounts, frames, lastRun,
          cIn, cOut, user, open, isLoading, lunchDiscount, calculation, form,
          today, tz, inflight, lastSubmit, lastInsert, toast, refreshed,
          records, dbToday, lastOp, sIn, sOut,
          attempts, now, grants, lastCall,
          render, authLoading, call, identityCalls, lastAuth>>

\* what each specification leaves alone
notCalcVars == <<dialogVars, storeVars, sanitizeVars, limiterVars, authVars,
    consoleVars,
    rateVars,
    roleVars,
    adminVars,
    recVars>>
notDialogVars == <<calcVars, storeVars, sanitizeVars, limiterVars, authVars,
    consoleVars,
    rateVars,
    roleVars,
    adminVars,
    recVars>>
notStoreVars == <<calcVars, dialogVars, sanitizeVars, limiterVars, authVars,
    consoleVars,
    rateVars,
    roleVars,
    adminVars,
    recVars>>
notSanitizeVars == <<calcVars, dialogVars, storeVars, limiterVars, authVars,
    consoleVars,
    rateVars,
    roleVars,
    adminVars,
    recVars>>
notLimiterVars == <<calcVars, dialogVars, storeVars, sanitizeVars, authVars,
    consoleVars,
    rateVars,
    roleVars,
    adminVars,
    recVars>>
notAuthVars == <<calcVars, dialogVars, storeVars, sanitizeVars, grants, lastCall,
    consoleVars,
    rateVars,
    roleVars,
    adminVars,
    recVars>>
notConsoleVars == <<calcVars, dialogVars, storeVars, sanitizeVars,
    limiterVars, authVars,
    rateVars,
    roleVars,
    adminVars,
    recVars>>
notRateVars == <<calcVars, dialogVars, storeVars, sanitizeVars,
    limiterVars, authVars, consoleVars,
    roleVars,
    adminVars,
    recVars>>
notRoleVars == <<calcVars, dialogVars, storeVars, sanitizeVars,
    limiterVars, authVars, consoleVars, rateVars,
    adminVars,
    recVars>>
notAdminVars == <<calcVars, dialogVars, storeVars, sanitizeVars,
    limiterVars, authVars, consoleVars, rateVars,
    roleVars,
    recVars>>
notRecVars == <<calcVars, dialogVars, storeVars, sanitizeVars,
    limiterVars, authVars, consoleVars, rateVars,
    roleVars, adminVars>>

----------------------------------------------------------------------------
(* Bounds of the checked input space *)

\* minutes of the hour tried are the multiples of MinuteStep
MinuteStep == 10

\* the dates entered are the days 0..MaxDay; the clock stands at day 0
MaxDay == 1

\* insert calls that may await their answer at the same time
MaxInFlight == 1

\* rows overtime_records can hold at a time
MaxRecords == 1
RecordIds == 1..MaxRecords

\* runs of one character a text tried has at most
MaxRuns == 3

\* the lengths of a run tried: around the limit of sanitizeInput
RunLengths == {1, 999, 1000}

\* the clock runs until the start of window number MaxWindows, counted
\* from 0 in lengths of windowMs
MaxWindows == 1

\* renders of AuthProvider after the first
MaxRenders == 1

----------------------------------------------------------------------------
(* JavaScript values *)

\* the result of Number() on non-numeric text, and of arithmetic on it
NaN == -999999

Null == <<>>
Some(x) == <<x>>

\* a rounding that truncates instead
MathFloor(num, den) == num \div den

\* Math.round(num / den) for den > 0: the nearest integer, a tie going up
MathRound(num, den) == (2 * num + den) \div (2 * den)

Str(k, h, m, w, d, real, pad) ==
    [k |-> k, h |-> h, m |-> m, w |-> w, d |-> d, real |-> real, pad |-> pad]

AbsentStr == Str("absent", 0, 0, 0, 0, FALSE, FALSE)
EmptyStr  == Str("empty", 0, 0, 0, 0, FALSE, FALSE)
TextStr   == Str("text", 0, 0, 0, 0, FALSE, FALSE)
\* "HH:MM"
Time(h, m)  == Str("time", h, m, 2, 0, FALSE, FALSE)
\* "H:MM", an hour written with one digit
Time1(h, m) == Str("time", h, m, 1, 0, FALSE, FALSE)

\* !s in JavaScript: null, undefined and "" are falsy; " " is not
Falsy(s) == s.k \in {"absent", "empty"} /\ ~s.pad

----------------------------------------------------------------------------
(* The parts of the application before anything has happened *)

\* the calculator check has made no call
CalcIdle ==
    /\ cIn = [startTime |-> EmptyStr, endTime |-> EmptyStr, hasLunch |-> FALSE]
    /\ cOut = <<>>

\* no call on the Record Store yet
NoOp ==
    [kind |-> "none", caller |-> "", id |-> 0, outcome |-> "none",
     sent |-> FALSE, before |-> Null, creation |-> "none", day |-> 0,
     read |-> {}]

\* overtime_records is empty
StoreIdle ==
    /\ records = [id \in RecordIds |-> Null]
    /\ dbToday = 0
    /\ lastOp = NoOp

\* the sanitizeInput check has made no call
SanitizeIdle ==
    /\ sIn = [isString |-> FALSE, runs |-> <<>>]
    /\ sOut = <<>>

----------------------------------------------------------------------------
(* RateLimiter: one instance, its callers and the clock *)

\* constructor defaults, and the arguments AuthProvider passes
maxAttempts == 5
windowMs == 15 * 60 * 1000

\* the keys tried
Keys == {"a@x.io", "b@x.io"}

\* the values of Date.now() tried: the ends of the windows that can start
\* at them and the millisecond after
Instants ==
    UNION { {w * windowMs, w * windowMs + 1} : w \in 0..MaxWindows }

\* new Map()
NoAttempts == [k \in Keys |-> Null]

\* count >= maxAttempts with the limit one higher
BlockedAbove(entry) == entry.count > maxAttempts

\* attempt.count >= this.maxAttempts
Blocked(entry) == entry.count >= maxAttempts

\* a refusal that starts the window again
RefusedPostponed(entry, t) == [entry EXCEPT !.resetTime = t + windowMs]

\* what a refused call leaves in the map: the entry as it was
Refused(entry, t) == entry

\* isAllowed(key) at Date.now() = t on the map m: the value returned and
\* the map afterwards
isAllowed(m, key, t) ==
    IF m[key] = Null \/ t > m[key][1].resetTime
    THEN [result |-> TRUE,
          map |-> [m EXCEPT ![key] = Some([count |-> 1, resetTime |-> t + windowMs])]]
    ELSE IF Blocked(m[key][1])
    THEN [result |-> FALSE,
          map |-> [m EXCEPT ![key] = Some(Refused(m[key][1], t))]]
    ELSE [result |-> TRUE,
          map |-> [m EXCEPT ![key] = Some([m[key][1] EXCEPT !.count = @ + 1])]]

\* a reset that empties the map
resetAll(m, key) == NoAttempts

\* reset(key) on the map m: the map afterwards
reset(m, key) == [m EXCEPT ![key] = Null]

\* no isAllowed has returned true
NoGrants == [k \in Keys |-> [t \in Instants |-> 0]]

NoCall == [op |-> "none", key |-> "", result |-> FALSE, before |-> NoAttempts]

\* the limiter as constructed
LimiterIdle ==
    /\ attempts = NoAttempts
    /\ now = 0
    /\ grants = NoGrants
    /\ lastCall = NoCall

----------------------------------------------------------------------------
(* AuthProvider and the Auth page: signIn and signUp under the RateLimiter  *)
(* that the provider constructs.  attempts is the map of the instance made  *)
(* by the latest render of the provider; an instance of an earlier render   *)
(* is reachable only from the calls that render started.                    *)

\* the email typed: key is the address in lower case without surrounding
\* white space, upper whether capitals were typed, valid whether the form
\* passes the schema of the page and the checks before the limiter
Emails == [key : Keys, upper : BOOLEAN, valid : BOOLEAN]

\* sanitizeInput(email).toLowerCase()
sanitizedEmail(email) == email.key

\* supabase.auth.signInWithPassword or supabase.auth.signUp is called at
\* instant t for a key whose count of calls is entry; the count stops one
\* above maxAttempts
called(entry, t) ==
    IF entry = Null \/ t > entry[1].resetTime
    THEN Some([count |-> 1, resetTime |-> t + windowMs])
    ELSE Some([entry[1] EXCEPT !.count = IF @ > maxAttempts THEN @ ELSE @ + 1])

NoAuth == [op |-> "none", key |-> "", outcome |-> "none", before |-> Null]

\* AuthProvider after its first render, the Auth page idle
AuthIdle ==
    /\ render = 0
    /\ authLoading = FALSE
    /\ call = Null
    /\ identityCalls = NoAttempts
    /\ lastAuth = NoAuth

----------------------------------------------------------------------------
(* useSecurity: the effect that replaces every method of console by a       *)
(* function that reports the access and then calls the method it replaced.  *)
(* A frame is one call of console[key]: level is the number of wrappers     *)
(* still between it and the native method (0: the native method itself),    *)
(* pc the position in the wrapper, by who made the call.                    *)

\* the stack holds at most MaxStack calls of console methods; one more is
\* a RangeError (Maximum call stack size exceeded)
MaxStack == 4
MaxMounts == 2

\* Object.keys(console) that are functions
Methods == {"log", "warn", "error", "info", "debug", "trace", "table", "dir"}

\* the events that validateInput and the fetch monitor report
Events == {"XSS attempt detected", "SQL injection attempt detected",
           "Path traversal attempt detected", "High request rate detected"}

NoRun == [entry |-> "none", event |-> "", mounted |-> FALSE, logged |-> 0,
          invoked |-> 0, outcome |-> "none"]

\* no use of the hook is mounted and nothing is running
ConsoleIdle ==
    /\ mounts = 0
    /\ frames = <<>>
    /\ lastRun = NoRun

----------------------------------------------------------------------------
(* public.rate_limits and public.check_rate_limit.  Time is in minutes; a   *)
(* key is the pair of p_identifier and p_action.                            *)

MaxLimit == 2
MaxWindowMinutes == 2
MaxSessions == 2

\* INTERVAL '1 hour' of the cleanup, in minutes
CleanupMinutes == 60

RateKeys == {<<"10.0.0.1", "login">>, <<"10.0.0.1", "signup">>}

\* the minutes at which the database is called: three in a row and, more
\* than an hour later, two more
SqlMinutes == 0 .. 2 \cup {CleanupMinutes + 2, CleanupMinutes + 3}

LimitArgs == [max : 1 .. MaxLimit, window : 1 .. MaxWindowMinutes]

\* DEFAULT 5 and DEFAULT 15
DefaultArgs == [max |-> 5, window |-> 15]

Sessions == 1 .. MaxSessions

NoTrues == [k \in RateKeys |-> [t \in SqlMinutes |-> 0]]

NoCheck == [key |-> <<>>, result |-> FALSE, found |-> {}, at |-> 0]

\* DELETE FROM public.rate_limits WHERE window_start < now() - INTERVAL '1 hour'
cleaned(table, t) == { r \in table : ~(r.window_start < t - CleanupMinutes) }

\* date_trunc('minute', now() - INTERVAL '1 minute' * p_window_minutes)
windowStart(t) == t - limitArgs.window

\* SELECT COALESCE(attempts, 0) INTO v_attempts ...: Null when no row matches
selectAttempts(table, key, ws) ==
    LET found == { r \in table : r.key = key /\ r.window_start = ws }
    IN IF found = {} THEN Null
       ELSE Some((CHOOSE r \in found : TRUE).attempts)

\* IF v_attempts >= p_max_attempts: not true of NULL
blocked(v_attempts) == v_attempts # Null /\ v_attempts[1] >= limitArgs.max

\* INSERT ... VALUES (..., 1, v_window_start) ON CONFLICT (identifier,
\* action, window_start) DO UPDATE SET attempts = rate_limits.attempts + 1
upsert(table, key, ws) ==
    IF \E r \in table : r.key = key /\ r.window_start = ws
    THEN { IF r.key = key /\ r.window_start = ws
           THEN [r EXCEPT !.attempts = @ + 1] ELSE r : r \in table }
    ELSE table \cup {[key |-> key, window_start |-> ws, attempts |-> 1]}

\* the table empty, no call made
RateEmpty ==
    /\ rate_limits = {}
    /\ sqlNow = 0
    /\ sessions = [s \in Sessions |-> Null]
    /\ trues = NoTrues
    /\ lastCheck = NoCheck

RateIdle == RateEmpty /\ limitArgs = DefaultArgs

----------------------------------------------------------------------------
(* AuthProvider: the session and the admin role                             *)

MaxLookups == 2

\* AuthProvider mounted, getSession() not yet resolved
RoleIdle ==
    /\ sessionUser = Null
    /\ isAdmin = FALSE
    /\ timers = {}
    /\ lookups = {}
    /\ booted = FALSE

----------------------------------------------------------------------------
(* The Admin page                                                           *)

MaxFetches == 2

NoStats == [totalEmployees |-> 0, totalHours |-> 0, averageHours |-> 0]

NoLoad == [employees |-> "idle", stats |-> "idle", top |-> "idle"]

\* the page as constructed, before its effect ran
AdminEmpty ==
    /\ employees = {}
    /\ loadEmployees = {}
    /\ load = NoLoad
    /\ adminLoading = TRUE
    /\ stats = NoStats
    /\ selectedEmployee = ""
    /\ dateFilter = ""
    /\ shown = {}
    /\ fetches = {}
    /\ lastExport = Null

AdminIdle == AdminEmpty /\ adminDb = [profiles |-> {}, rows |-> {}]

----------------------------------------------------------------------------
(* OvertimeRecordActions: the edit and delete dialogs of a listed record    *)

\* editData as first set from the record: "YYYY-MM-DD" and "HH:MM:SS"
RecordData ==
    [date |-> Str("date", 0, 0, 0, 0, TRUE, FALSE),
     startTime |-> Str("timesec", 8, 0, 2, 0, FALSE, FALSE),
     endTime |-> Str("timesec", 17, 0, 2, 0, FALSE, FALSE),
     lunchDiscount |-> FALSE]

\* the component as constructed
RecIdle ==
    /\ recOpen = "none"
    /\ recLoading = FALSE
    /\ recCall = Null
    /\ editData = RecordData
    /\ recToast = "none"
    /\ recRefreshed = FALSE

----------------------------------------------------------------------------
(* The calculator *)

HOURLY_RATE == 1557

\* the length sanitizeInput cuts a text to
SanitizeMax == 1000

\* s.split(':').map(Number): <<hour, minute>>; Number ignores surrounding
\* whitespace and gives NaN for text that is no number
SplitNumber(s) ==
    IF s.k \in {"time", "timesec"} THEN <<s.h, s.m>> ELSE <<NaN, NaN>>

\* hour * 60 + minute
Minutes(hm) ==
    IF hm[1] = NaN \/ hm[2] = NaN THEN NaN ELSE hm[1] * 60 + hm[2]

\* the difference without the midnight wraparound
TotalMinutesNoWrap(startMinutes, endMinutes) ==
    IF startMinutes = NaN \/ endMinutes = NaN THEN NaN
    ELSE endMinutes - startMinutes

\* a wraparound applied to a zero difference too
TotalMinutesWrapZero(startMinutes, endMinutes) ==
    IF startMinutes = NaN \/ endMinutes = NaN THEN NaN
    ELSE IF endMinutes - startMinutes <= 0
         THEN endMinutes - startMinutes + 24 * 60
         ELSE endMinutes - startMinutes

\* endMinutes - startMinutes, plus 24 * 60 when negative
TotalMinutes(startMinutes, endMinutes) ==
    IF startMinutes = NaN \/ endMinutes = NaN THEN NaN
    ELSE IF endMinutes - startMinutes < 0
         THEN endMinutes - startMinutes + 24 * 60
         ELSE endMinutes - startMinutes

\* The pairs <<totalMinutes, lunch>> at which netHours * HOURLY_RATE * 100,
\* evaluated in IEEE-754 doubles, lies just below an exact tie k + 0.5, so
\* that Math.round gives k where exact arithmetic gives k + 1.
DoubleBelowTie ==
    { <<10, TRUE>>, <<150, FALSE>>, <<210, TRUE>>, <<290, TRUE>>,
      <<490, FALSE>>, <<550, TRUE>>, <<610, FALSE>>, <<670, FALSE>>,
      <<670, TRUE>>, <<730, TRUE>>, <<1010, FALSE>>, <<1010, TRUE>>,
      <<1070, FALSE>>, <<1070, TRUE>>, <<1130, TRUE>> }

\* the value computed from the net hours already rounded to 2 decimals
ValueCentsOfRounded(totalMinutes, lunch) ==
    LET netMinutes == IF lunch THEN totalMinutes - 60 ELSE totalMinutes
    IN MathRound(MathRound(netMinutes * 100, 60) * HOURLY_RATE, 100)

\* Math.round(totalValue * 100) in cents
ValueCents(totalMinutes, lunch) ==
    LET netMinutes == IF lunch THEN totalMinutes - 60 ELSE totalMinutes
        exact == MathRound(netMinutes * HOURLY_RATE, 60)
    IN IF <<totalMinutes, lunch>> \in DoubleBelowTie THEN exact - 1 ELSE exact

\* the record returned for totalMinutes and the lunch decision taken
CalcRecord(totalMinutes, lunch) ==
    IF totalMinutes = NaN
    THEN [totalHours |-> NaN, lunchDiscount |-> lunch,
          netHours |-> NaN, totalValue |-> NaN]
    ELSE [totalHours |-> MathRound(totalMinutes * 100, 60),
          lunchDiscount |-> lunch,
          netHours |-> MathRound((IF lunch THEN totalMinutes - 60
                                           ELSE totalMinutes) * 100, 60),
          totalValue |-> ValueCents(totalMinutes, lunch)]

\* a guard that needs both times to be missing
NotComputableBoth(startTime, endTime) == Falsy(startTime) /\ Falsy(endTime)

\* the guard of every calculator: if (!startTime || !endTime) return null
NotComputable(startTime, endTime) == Falsy(startTime) \/ Falsy(endTime)

\* the lunch decision of the add-entry dialog: the checkbox value
LunchOfFlag(totalMinutes, hasLunch) == hasLunch

\* AddOvertimeDialog.calculateOvertime(startTime, endTime, hasLunch)
calculateOvertime(startTime, endTime, hasLunch) ==
    IF NotComputable(startTime, endTime) THEN Null
    ELSE LET totalMinutes == TotalMinutes(Minutes(SplitNumber(startTime)),
                                          Minutes(SplitNumber(endTime)))
         IN Some(CalcRecord(totalMinutes, LunchOfFlag(totalMinutes, hasLunch)))

\* the lunch decision of the second add-entry dialog: totalHours >= 6
LunchOfLength(totalMinutes, hasLunch) ==
    totalMinutes # NaN /\ totalMinutes >= 6 * 60

\* the second add-entry dialog's calculateOvertime(startTime, endTime); an
\* extra argument of a JavaScript call is ignored
calculateOvertimeAuto(startTime, endTime, hasLunch) ==
    IF NotComputable(startTime, endTime) THEN Null
    ELSE LET totalMinutes == TotalMinutes(Minutes(SplitNumber(startTime)),
                                          Minutes(SplitNumber(endTime)))
         IN Some(CalcRecord(totalMinutes, LunchOfLength(totalMinutes, hasLunch)))

\* OvertimeRecordActions.calculateOvertime(startTime, endTime, hasLunch)
calculateOvertimeEdit(startTime, endTime, hasLunch) ==
    IF NotComputable(startTime, endTime) THEN Null
    ELSE LET totalMinutes == TotalMinutes(Minutes(SplitNumber(startTime)),
                                          Minutes(SplitNumber(endTime)))
         IN Some(CalcRecord(totalMinutes, LunchOfFlag(totalMinutes, hasLunch)))

----------------------------------------------------------------------------
(* Input validation utilities *)

DayMs == 24 * 60 * 60 * 1000
HourMs == 60 * 60 * 1000

\* "YYYY-MM-DD" naming day d
Date(d) == Str("date", 0, 0, 0, d, TRUE, FALSE)
\* text of the shape "YYYY-MM-DD" that names no date, such as "2024-13-45"
NoDate == Str("date", 0, 0, 0, 0, FALSE, FALSE)
\* s between spaces
Padded(s) == [s EXCEPT !.pad = TRUE]

\* sanitizeInput: '' for a non-string, else the text trimmed; the texts
\* modelled hold no control character and are shorter than 1000
sanitizeInput(s) ==
    IF s.k = "absent" THEN EmptyStr ELSE [s EXCEPT !.pad = FALSE]

\* isValidTime: /^([01]?[0-9]|2[0-3]):[0-5][0-9]$/
isValidTime(s) ==
    /\ s.k = "time" /\ ~s.pad
    /\ s.m \in 0..59
    /\ \/ s.w = 2 /\ s.h \in 0..23
       \/ s.w = 1 /\ s.h \in 0..9

\* new Date("YYYY-MM-DD").getTime(): a date-only text is midnight UTC
DateParse(s) ==
    IF s.k = "date" /\ ~s.pad /\ s.real THEN s.d * DayMs ELSE NaN

\* isValidDate: /^\d{4}-\d{2}-\d{2}$/ and a Date that is no NaN
isValidDate(s) ==
    /\ s.k = "date" /\ ~s.pad
    /\ DateParse(s) # NaN

\* new Date(`2000-01-01T${s}`) for a text that passed isValidTime, in
\* milliseconds after the local midnight of 2000-01-01.  "T9:30" is no ISO
\* date-time: the engine decides (lenient: it reads the hour; else Invalid
\* Date, whose time value is NaN).
TimeParse(s, lenient) ==
    IF s.w = 2 \/ lenient THEN (s.h * 60 + s.m) * 60 * 1000 ELSE NaN

\* a >= b on Date objects: false when either is an Invalid Date
DateGeq(a, b) == a # NaN /\ b # NaN /\ a >= b

\* today = new Date(); today.setHours(23, 59, 59, 999): the last millisecond
\* of the local day, as a time value (UTC)
EndOfToday(day, offset) == day * DayMs + DayMs - 1 - offset * HourMs

\* the checks of handleSubmit that throw, in the order of the code; "ok"
\* when none throws
Validate(date, startTime, endTime, day, offset, lenient) ==
    IF Falsy(date) \/ Falsy(startTime) \/ Falsy(endTime) THEN "MissingField"
    ELSE IF ~isValidDate(sanitizeInput(date)) THEN "InvalidDate"
    ELSE IF \/ ~isValidTime(sanitizeInput(startTime))
            \/ ~isValidTime(sanitizeInput(endTime)) THEN "InvalidTime"
    ELSE IF DateParse(sanitizeInput(date)) > EndOfToday(day, offset)
         THEN "FutureDate"
    ELSE IF DateGeq(TimeParse(sanitizeInput(startTime), lenient),
                    TimeParse(sanitizeInput(endTime), lenient))
         THEN "InvalidTimeRange"
    ELSE "ok"

\* error.message of the Error thrown by a failed check
Message(tag) ==
    CASE tag = "MissingField"     -> "Todos os campos sao obrigatorios"
      [] tag = "InvalidDate"      -> "Data invalida"
      [] tag = "InvalidTime"      -> "Horario invalido"
      [] tag = "FutureDate"       -> "Nao e possivel registrar horas extras para datas futuras"
      [] tag = "InvalidTimeRange" -> "Horario de fim deve ser posterior ao horario de inicio"

----------------------------------------------------------------------------
(* The add-entry dialog *)

\* the values the date input is given
FormDates ==
    {EmptyStr, NoDate, Padded(Date(0))} \cup { Date(d) : d \in 0..MaxDay }

\* the values the time inputs are given
FormTimes ==
    {EmptyStr, TextStr, Time(8, 0), Time(9, 0), Time(17, 0), Time1(9, 30)}

\* local time minus UTC, in hours
TzOffsets == {-3, 0, 9}

EmptyForm == [date |-> EmptyStr, startTime |-> EmptyStr, endTime |-> EmptyStr]

\* the dialog as constructed: closed, nothing calculated, nobody signed in
DialogIdle ==
    /\ user = Null
    /\ open = FALSE
    /\ isLoading = FALSE
    /\ lunchDiscount = FALSE
    /\ calculation = Null
    /\ form = EmptyForm
    /\ today = 0
    /\ inflight = 0
    /\ lastSubmit = "none"
    /\ lastInsert = Null
    /\ toast = "none"
    /\ refreshed = FALSE

Init ==
    /\ CalcIdle
    /\ StoreIdle
    /\ SanitizeIdle
    /\ LimiterIdle
    /\ AuthIdle
    /\ ConsoleIdle
    /\ RecIdle
    /\ AdminIdle
    /\ RoleIdle
    /\ RateIdle
    /\ tz \in TzOffsets
    /\ DialogIdle

\* a step that is no handleSubmit call and shows nothing
Quiet ==
    /\ lastSubmit' = "none"
    /\ lastInsert' = Null
    /\ toast' = "none"
    /\ refreshed' = FALSE

\* the identity service reports a session
SignIn ==
    /\ user = Null
    /\ user' = Some("u1")
    /\ Quiet
    /\ UNCHANGED <<open, isLoading, lunchDiscount, calculation, form, today, tz, inflight>>

\* the identity service reports that the session ended
SignOut ==
    /\ user # Null
    /\ user' = Null
    /\ Quiet
    /\ UNCHANGED <<open, isLoading, lunchDiscount, calculation, form, today, tz, inflight>>

\* DialogTrigger: onOpenChange(true) mounts the form, its inputs empty; a
\* dialog is modal, so no other is open, and the forms are exercised one
\* at a time: the component of the record is as constructed
OpenDialog ==
    /\ ~open
    /\ RecIdle
    /\ open' = TRUE
    /\ form' = EmptyForm
    /\ Quiet
    /\ UNCHANGED <<user, isLoading, lunchDiscount, calculation, today, tz, inflight>>

\* Cancelar, Escape or a click outside: setOpen(false) unmounts the form;
\* calculation and lunchDiscount are kept
Cancel ==
    /\ open
    /\ open' = FALSE
    /\ form' = EmptyForm
    /\ Quiet
    /\ UNCHANGED <<user, isLoading, lunchDiscount, calculation, today, tz, inflight>>

\* the date input changes (it has no handler)
SetDate ==
    /\ open
    /\ \E v \in FormDates :
         /\ v # form.date
         /\ form' = [form EXCEPT !.date = v]
    /\ Quiet
    /\ UNCHANGED <<user, open, isLoading, lunchDiscount, calculation, today, tz, inflight>>

\* a handler that calculates once and keeps the result afterwards
handleTimeChangeOnce(f) ==
    IF calculation = Null /\ ~Falsy(f.startTime) /\ ~Falsy(f.endTime)
    THEN calculateOvertime(f.startTime, f.endTime, lunchDiscount)
    ELSE calculation

\* handleTimeChange on the form f: recalculate when both times are given
handleTimeChange(f) ==
    IF ~Falsy(f.startTime) /\ ~Falsy(f.endTime)
    THEN calculateOvertime(f.startTime, f.endTime, lunchDiscount)
    ELSE calculation

\* the startTime input changes: handleTimeChange
SetStartTime ==
    /\ open
    /\ \E v \in FormTimes :
         /\ v # form.startTime
         /\ form' = [form EXCEPT !.startTime = v]
         /\ calculation' = handleTimeChange([form EXCEPT !.startTime = v])
    /\ Quiet
    /\ UNCHANGED <<user, open, isLoading, lunchDiscount, today, tz, inflight>>

\* the endTime input changes: handleTimeChange
SetEndTime ==
    /\ open
    /\ \E v \in FormTimes :
         /\ v # form.endTime
         /\ form' = [form EXCEPT !.endTime = v]
         /\ calculation' = handleTimeChange([form EXCEPT !.endTime = v])
    /\ Quiet
    /\ UNCHANGED <<user, open, isLoading, lunchDiscount, today, tz, inflight>>

\* the checkbox changes: handleLunchChange(checked)
handleLunchChange ==
    /\ open
    /\ lunchDiscount' = ~lunchDiscount
    /\ calculation' =
         IF ~Falsy(form.startTime) /\ ~Falsy(form.endTime)
         THEN calculateOvertime(form.startTime, form.endTime, ~lunchDiscount)
         ELSE calculation
    /\ Quiet
    /\ UNCHANGED <<user, open, isLoading, form, today, tz, inflight>>

\* the row handed to insert()
InsertRow ==
    [user_id        |-> user[1],
     date           |-> sanitizeInput(form.date),
     start_time     |-> sanitizeInput(form.startTime),
     end_time       |-> sanitizeInput(form.endTime),
     total_hours    |-> calculation[1].totalHours,
     lunch_discount |-> lunchDiscount,
     net_hours      |-> calculation[1].netHours,
     hourly_rate    |-> HOURLY_RATE,
     total_value    |-> calculation[1].totalValue]

\* handleSubmit up to its await: the guard, the checks, then either the
\* catch and finally blocks (a message, isLoading false again) or the
\* insert call
handleSubmit ==
    /\ open
    /\ inflight < MaxInFlight
    /\ IF user = Null \/ calculation = Null
       THEN /\ lastSubmit' = "Dropped"
            /\ lastInsert' = Null
            /\ toast' = "none"
            /\ UNCHANGED <<isLoading, inflight>>
       ELSE \E lenient \in BOOLEAN :
              LET tag == Validate(form.date, form.startTime, form.endTime,
                                  today, tz, lenient)
              IN IF tag = "ok"
                 THEN /\ lastSubmit' = "Insert"
                      /\ lastInsert' = Some(InsertRow)
                      /\ toast' = "none"
                      /\ isLoading' = TRUE
                      /\ inflight' = inflight + 1
                 ELSE /\ lastSubmit' = tag
                      /\ lastInsert' = Null
                      /\ toast' = Message(tag)
                      /\ isLoading' = FALSE
                      /\ UNCHANGED inflight
    /\ refreshed' = FALSE
    /\ UNCHANGED <<user, open, lunchDiscount, calculation, form, today, tz>>

\* the insert resolved without error: success toast, the dialog closes,
\* the calculation is cleared, onSuccess() refreshes the list
InsertSucceeds ==
    /\ inflight > 0
    /\ refreshed' = TRUE
    /\ inflight' = inflight - 1
    /\ toast' = "Hora extra registrada com sucesso!"
    /\ open' = FALSE
    /\ form' = EmptyForm
    /\ calculation' = Null
    /\ isLoading' = FALSE
    /\ lastSubmit' = "none"
    /\ lastInsert' = Null
    /\ UNCHANGED <<user, lunchDiscount, today, tz>>

\* the insert resolved with an error, or the call rejected: error toast
InsertFails ==
    /\ inflight > 0
    /\ refreshed' = FALSE
    /\ inflight' = inflight - 1
    /\ toast' = "Erro ao registrar hora extra"
    /\ isLoading' = FALSE
    /\ lastSubmit' = "none"
    /\ lastInsert' = Null
    /\ UNCHANGED <<user, open, lunchDiscount, calculation, form, today, tz>>

Next ==
    \/ (SignIn /\ UNCHANGED notDialogVars)
    \/ (SignOut /\ UNCHANGED notDialogVars)
    \/ (OpenDialog /\ UNCHANGED notDialogVars)
    \/ (Cancel /\ UNCHANGED notDialogVars)
    \/ (SetDate /\ UNCHANGED notDialogVars)
    \/ (SetStartTime /\ UNCHANGED notDialogVars)
    \/ (SetEndTime /\ UNCHANGED notDialogVars)
    \/ (handleLunchChange /\ UNCHANGED notDialogVars)
    \/ (handleSubmit /\ UNCHANGED notDialogVars)
    \/ (InsertSucceeds /\ UNCHANGED notDialogVars)
    \/ (InsertFails /\ UNCHANGED notDialogVars)

Spec == Init /\ [][Next]_vars

----------------------------------------------------------------------------
(* The Record Store: table overtime_records, its row-level security and its *)
(* CHECK constraints                                                        *)

Users == {"u1", "u2"}

\* table user_roles
user_roles == {<<"u1", "employee">>, <<"u2", "employee">>, <<"u2", "admin">>}

\* has_role(_user_id, _role)
has_role(u, role) == <<u, role>> \in user_roles

\* a TIME column read back: "HH:MM:SS"
PgTime(s) == Str("timesec", s.h, s.m, 2, 0, FALSE, FALSE)

\* a DATE column read back: "YYYY-MM-DD"
PgDate(s) == Date(s.d)

\* the column types and NOT NULL: a date that exists, times of the day,
\* numbers that are no NaN (NaN is sent as null)
PgTyped(row) ==
    /\ row.date.k = "date" /\ row.date.real
    /\ \A t \in {row.start_time, row.end_time} :
          t.k \in {"time", "timesec"} /\ t.h \in 0..23 /\ t.m \in 0..59
    /\ row.total_hours # NaN /\ row.net_hours # NaN /\ row.total_value # NaN

\* the CHECK constraints without overtime_records_date_not_future
CheckConstraintsNoDate(row, day) ==
    /\ row.total_hours > 0
    /\ row.net_hours > 0
    /\ row.total_value > 0
    /\ row.start_time.h * 60 + row.start_time.m
         < row.end_time.h * 60 + row.end_time.m

\* the CHECK constraints of overtime_records; day is CURRENT_DATE
CheckConstraints(row, day) ==
    /\ row.total_hours > 0
    /\ row.net_hours > 0
    /\ row.total_value > 0
    /\ row.date.d <= day
    /\ row.start_time.h * 60 + row.start_time.m
         < row.end_time.h * 60 + row.end_time.m

\* "Users can view their own overtime records", "Admins can view all
\* overtime records"
SelectPolicy(caller, row) ==
    caller = row.user_id \/ has_role(caller, "admin")

\* a policy that lets everybody in
PolicyOpen(caller, row) == TRUE

\* "Users can insert their own overtime records"
InsertPolicy(caller, row) == caller = row.user_id

\* "Users can update their own overtime records"
UpdatePolicy(caller, row) == caller = row.user_id

\* "Users can delete their own overtime records"
DeletePolicy(caller, row) == caller = row.user_id

\* the row as stored on day: the values sent, in the column types, with
\* updated_at (DEFAULT now() on insert, the trigger on update)
StoredRow(row, day) ==
    [user_id        |-> row.user_id,
     date           |-> PgDate(row.date),
     start_time     |-> PgTime(row.start_time),
     end_time       |-> PgTime(row.end_time),
     total_hours    |-> row.total_hours,
     lunch_discount |-> row.lunch_discount,
     net_hours      |-> row.net_hours,
     hourly_rate    |-> row.hourly_rate,
     total_value    |-> row.total_value,
     updated_at     |-> day]

\* row with the columns named in patch replaced
Patched(row, patch) ==
    [c \in DOMAIN row |-> IF c \in DOMAIN patch THEN patch[c] ELSE row[c]]

\* the outcome of INSERT by caller: "denied" by the policy, "rejected" by
\* a type or a constraint, else "stored"
InsertOutcome(caller, row) ==
    IF ~PgTyped(row) THEN "rejected"
    ELSE IF ~InsertPolicy(caller, row) THEN "denied"
    ELSE IF ~CheckConstraints(StoredRow(row, dbToday), dbToday) THEN "rejected"
    ELSE "stored"

\* the row with the id exists and passes the filter on user_id, if any
Matches(id, filterUser) ==
    /\ records[id] # Null
    /\ filterUser # Null => records[id][1].user_id = filterUser[1]

\* the outcome of UPDATE ... SET patch by caller: "nomatch" when no row
\* matches or the policy hides it (no error), "denied" when the new row fails the policy, "rejected"
\* by a type or a constraint, else "updated"
UpdateOutcome(caller, id, filterUser, patch) ==
    IF ~Matches(id, filterUser) THEN "nomatch"
    ELSE IF ~UpdatePolicy(caller, records[id][1]) THEN "nomatch"
    ELSE LET new == Patched(records[id][1], patch)
         IN IF ~PgTyped(new) THEN "rejected"
            ELSE IF ~UpdatePolicy(caller, new) THEN "denied"
            ELSE IF ~CheckConstraints(StoredRow(new, dbToday), dbToday)
                 THEN "rejected"
            ELSE "updated"

\* the outcome of DELETE by caller
DeleteOutcome(caller, id, filterUser) ==
    IF ~Matches(id, filterUser) THEN "nomatch"
    ELSE IF ~DeletePolicy(caller, records[id][1]) THEN "nomatch"
    ELSE "deleted"

\* SELECT * by caller: the rows the policies show
Select(caller) ==
    { id \in RecordIds : records[id] # Null /\ SelectPolicy(caller, records[id][1]) }

\* the id a new row gets: gen_random_uuid(), an id no row has
FreeIds == { id \in RecordIds : records[id] = Null }

\* what a call did: who made it (caller) on which record (id), whether the
\* store was called (sent) and its answer (outcome), the record before the
\* call, what handleSubmit's checks say of the values (creation), the local
\* day of the client's clock, and the rows a select returned (read)
Op(kind, caller, id, outcome, sent, creation, day, read) ==
    [kind |-> kind, caller |-> caller, id |-> id, outcome |-> outcome,
     sent |-> sent, before |-> IF id \in RecordIds THEN records[id] ELSE Null,
     creation |-> creation, day |-> day, read |-> read]

\* from('overtime_records').insert(row) by caller
Insert(kind, caller, row, creation, day) ==
    /\ FreeIds # {}
    /\ LET id == CHOOSE i \in FreeIds : \A j \in FreeIds : i <= j
           outcome == InsertOutcome(caller, row)
       IN /\ records' = IF outcome = "stored"
                        THEN [records EXCEPT ![id] = Some(StoredRow(row, dbToday))]
                        ELSE records
          /\ lastOp' = Op(kind, caller, IF outcome = "stored" THEN id ELSE 0,
                          outcome, TRUE, creation, day, {})

\* from('overtime_records').update(patch).eq('id', id) by caller, with
\* .eq('user_id', filterUser[1]) when filterUser is no Null
Update(kind, caller, id, filterUser, patch, creation, day) ==
    LET outcome == UpdateOutcome(caller, id, filterUser, patch)
    IN /\ records' = IF outcome = "updated"
                     THEN [records EXCEPT ![id] =
                             Some(StoredRow(Patched(records[id][1], patch), dbToday))]
                     ELSE records
       /\ lastOp' = Op(kind, caller, id, outcome, TRUE, creation, day, {})

\* from('overtime_records').delete().eq('id', id) by caller, with
\* .eq('user_id', filterUser[1]) when filterUser is no Null
Delete(kind, caller, id, filterUser) ==
    LET outcome == DeleteOutcome(caller, id, filterUser)
    IN /\ records' = IF outcome = "deleted"
                     THEN [records EXCEPT ![id] = Null]
                     ELSE records
       /\ lastOp' = Op(kind, caller, id, outcome, TRUE, "none", dbToday, {})

----------------------------------------------------------------------------
(* The clients of the Record Store: the creation, edit and deletion flows   *)
(* of a signed-in user, and calls on the store's API that bypass them       *)

\* an hourly rate of records written before the rate became HOURLY_RATE
OldRate == 1400
Rates == {HOURLY_RATE, OldRate}

\* the <<startTime, endTime>> the clients enter, as "HH:MM": 20 minutes,
\* 9 hours, 15 hours over midnight, nothing
StoreShifts ==
    { <<Time(8, 0), Time(8, 20)>>, <<Time(8, 0), Time(17, 0)>>,
      <<Time(17, 0), Time(8, 0)>>, <<Time(8, 0), Time(8, 0)>> }

\* dates the clients enter: up to the day after the store's last day
StoreDates == { Date(d) : d \in 0..(MaxDay + 1) }

\* the local days a client's clock can show when the store's day is day
LocalDays(day, offset) ==
    IF offset < 0 THEN {day - 1, day}
    ELSE IF offset > 0 THEN {day, day + 1}
    ELSE {day}

\* the local day of a client and what handleSubmit's checks answer there
\* for the values, over the clients' time zones, clocks and engines
Clients(date, startTime, endTime) ==
    UNION { { [day |-> day,
               tag |-> Validate(date, startTime, endTime, day, offset, lenient)] :
                day \in LocalDays(dbToday, offset), lenient \in BOOLEAN } :
            offset \in TzOffsets }

\* the row handleSubmit hands to insert()
NewRow(u, date, startTime, endTime, lunch, calc) ==
    [user_id        |-> u,
     date           |-> sanitizeInput(date),
     start_time     |-> sanitizeInput(startTime),
     end_time       |-> sanitizeInput(endTime),
     total_hours    |-> calc.totalHours,
     lunch_discount |-> lunch,
     net_hours      |-> calc.netHours,
     hourly_rate    |-> HOURLY_RATE,
     total_value    |-> calc.totalValue]

\* AddOvertimeDialog.handleSubmit by user u with the form filled in and the
\* calculation that of the form's values
CreateFlow(u) ==
    \E date \in StoreDates, shift \in StoreShifts, lunch \in BOOLEAN :
    \E client \in Clients(date, shift[1], shift[2]) :
    LET startTime == shift[1]
        endTime == shift[2]
        calc == calculateOvertime(startTime, endTime, lunch)
        tag == client.tag
    IN /\ calc # Null
       /\ IF tag # "ok"
          THEN /\ lastOp' = Op("create", u, 0, tag, FALSE, tag, client.day, {})
               /\ UNCHANGED records
          ELSE Insert("create", u,
                      NewRow(u, date, startTime, endTime, lunch, calc[1]),
                      tag, client.day)
       /\ UNCHANGED dbToday

\* the checks of handleEdit that throw, in the order of the code
ValidateEdit(date, startTime, endTime) ==
    IF Falsy(date) \/ Falsy(startTime) \/ Falsy(endTime) THEN "MissingField"
    ELSE IF ~isValidDate(sanitizeInput(date)) THEN "InvalidDate"
    ELSE IF \/ ~isValidTime(sanitizeInput(startTime))
            \/ ~isValidTime(sanitizeInput(endTime)) THEN "InvalidTime"
    ELSE "ok"

\* an update that writes the rate of today as well
EditPatchWithRate(date, startTime, endTime, lunch, calc) ==
    [date           |-> sanitizeInput(date),
     start_time     |-> sanitizeInput(startTime),
     end_time       |-> sanitizeInput(endTime),
     total_hours    |-> calc.totalHours,
     lunch_discount |-> lunch,
     net_hours      |-> calc.netHours,
     hourly_rate    |-> HOURLY_RATE,
     total_value    |-> calc.totalValue]

\* the columns handleEdit hands to update()
EditPatch(date, startTime, endTime, lunch, calc) ==
    [date           |-> sanitizeInput(date),
     start_time     |-> sanitizeInput(startTime),
     end_time       |-> sanitizeInput(endTime),
     total_hours    |-> calc.totalHours,
     lunch_discount |-> lunch,
     net_hours      |-> calc.netHours,
     total_value    |-> calc.totalValue]

\* OvertimeRecordActions.handleEdit by user u on a record of u's list; the
\* edit form starts as the record read back ("HH:MM:SS" times) and the
\* fields may be retyped, both times or the end time alone
handleEdit(u, id) ==
    /\ records[id] # Null
    /\ records[id][1].user_id = u
    /\ \E date \in {records[id][1].date, EmptyStr} \cup StoreDates,
          shift \in StoreShifts
                      \cup { <<records[id][1].start_time, records[id][1].end_time>>,
                             <<records[id][1].start_time, Time(17, 0)>> },
          lunch \in BOOLEAN :
       \E client \in Clients(date, shift[1], shift[2]) :
       LET startTime == shift[1]
           endTime == shift[2]
           tag == ValidateEdit(date, startTime, endTime)
           creation == client.tag
           day == client.day
           calc == calculateOvertimeEdit(sanitizeInput(startTime),
                                         sanitizeInput(endTime), lunch)
       IN IF tag # "ok"
          THEN /\ lastOp' = Op("edit", u, id, tag, FALSE, creation, day, {})
               /\ UNCHANGED records
          ELSE IF calc = Null
          THEN /\ lastOp' = Op("edit", u, id, "CalcError", FALSE, creation, day, {})
               /\ UNCHANGED records
          ELSE Update("edit", u, id, Some(u),
                      EditPatch(date, startTime, endTime, lunch, calc[1]),
                      creation, day)
    /\ UNCHANGED dbToday

\* OvertimeRecordActions.handleDelete by user u on a record of u's list
handleDelete(u, id) ==
    /\ records[id] # Null
    /\ records[id][1].user_id = u
    /\ Delete("delete", u, id, Some(u))
    /\ UNCHANGED dbToday

\* a row whose totals are positive
ApiRow(u, date, rate) ==
    [user_id        |-> u,
     date           |-> date,
     start_time     |-> Time(8, 0),
     end_time       |-> Time(17, 0),
     total_hours    |-> 900,
     lunch_discount |-> FALSE,
     net_hours      |-> 900,
     hourly_rate    |-> rate,
     total_value    |-> 14013]

\* rows a caller of the API may send: any owner, any date, any rate, and
\* rows that break one CHECK constraint each
ApiRows ==
    { ApiRow(u, date, rate) : u \in Users, date \in StoreDates, rate \in Rates }
    \cup { [ApiRow(u, Date(0), HOURLY_RATE) EXCEPT !.total_hours = 0] : u \in Users }
    \cup { [ApiRow(u, Date(0), HOURLY_RATE) EXCEPT !.net_hours = 0] : u \in Users }
    \cup { [ApiRow(u, Date(0), HOURLY_RATE) EXCEPT !.total_value = -1] : u \in Users }
    \cup { [ApiRow(u, Date(0), HOURLY_RATE) EXCEPT !.end_time = Time(8, 0)] : u \in Users }

\* columns a caller of the API may set
ApiPatches ==
    { [user_id |-> u] : u \in Users } \cup { [hourly_rate |-> r] : r \in Rates }
    \cup { [total_value |-> -1], [net_hours |-> 0], [end_time |-> Time(8, 0)] }
    \cup { [date |-> date] : date \in StoreDates }

\* insert through the API by a signed-in user
ApiInsert(caller) ==
    /\ \E row \in ApiRows : Insert("apiInsert", caller, row, "none", dbToday)
    /\ UNCHANGED dbToday

\* update through the API by a signed-in user, filtered by id alone
ApiUpdate(caller, id) ==
    /\ \E patch \in ApiPatches : Update("apiUpdate", caller, id, Null, patch, "none", dbToday)
    /\ UNCHANGED dbToday

\* delete through the API by a signed-in user, filtered by id alone
ApiDelete(caller, id) ==
    /\ Delete("apiDelete", caller, id, Null)
    /\ UNCHANGED dbToday

\* select through the API by a signed-in user, with no filter
ApiSelect(caller) ==
    /\ lastOp' = Op("select", caller, 0, "read", TRUE, "none", dbToday, Select(caller))
    /\ UNCHANGED <<records, dbToday>>

\* midnight UTC passes
Tick ==
    /\ dbToday < MaxDay
    /\ dbToday' = dbToday + 1
    /\ lastOp' = NoOp
    /\ UNCHANGED records

StoreInit ==
    /\ CalcIdle
    /\ tz = 0
    /\ DialogIdle
    /\ StoreIdle
    /\ SanitizeIdle
    /\ LimiterIdle
    /\ AuthIdle
    /\ ConsoleIdle
    /\ RecIdle
    /\ AdminIdle
    /\ RoleIdle
    /\ RateIdle

StoreNext ==
    \/ \E u \in Users : CreateFlow(u) /\ UNCHANGED notStoreVars
    \/ \E u \in Users, id \in RecordIds : handleEdit(u, id) /\ UNCHANGED notStoreVars
    \/ \E u \in Users, id \in RecordIds : handleDelete(u, id) /\ UNCHANGED notStoreVars
    \/ \E u \in Users : ApiInsert(u) /\ UNCHANGED notStoreVars
    \/ \E u \in Users, id \in RecordIds : ApiUpdate(u, id) /\ UNCHANGED notStoreVars
    \/ \E u \in Users, id \in RecordIds : ApiDelete(u, id) /\ UNCHANGED notStoreVars
    \/ \E u \in Users : ApiSelect(u) /\ UNCHANGED notStoreVars
    \/ (Tick /\ UNCHANGED notStoreVars)

SpecStore == StoreInit /\ [][StoreNext]_vars

----------------------------------------------------------------------------
(* sanitizeInput on texts of any length.  A text is a sequence of runs,     *)
(* [c |-> character, n |-> how many times it is repeated]; "" is <<>>.      *)

\* the characters tried: a letter, the space U+0020, the tab U+0009 (white
\* space and control character), NUL U+0000 and DEL U+007F
Chars == {"a", "space", "tab", "nul", "del"}

\* what trim() removes
IsWhitespace(c) == c \in {"space", "tab"}

\* [\x00-\x1F\x7F]
IsControl(c) == c \in {"tab", "nul", "del"}

RECURSIVE TrimStart(_), TrimEnd(_), replace(_), substring(_, _), Joined(_)

\* a text without its leading white space
TrimStart(runs) ==
    IF runs = <<>> THEN <<>>
    ELSE IF IsWhitespace(Head(runs).c) THEN TrimStart(Tail(runs))
    ELSE runs

\* a text without its trailing white space
TrimEnd(runs) ==
    IF runs = <<>> THEN <<>>
    ELSE IF IsWhitespace(runs[Len(runs)].c)
         THEN TrimEnd(SubSeq(runs, 1, Len(runs) - 1))
    ELSE runs

\* input.trim()
trim(runs) == TrimEnd(TrimStart(runs))

\* .replace(/[\x00-\x1F\x7F]/g, '')
replace(runs) ==
    IF runs = <<>> THEN <<>>
    ELSE IF IsControl(Head(runs).c) THEN replace(Tail(runs))
    ELSE <<Head(runs)>> \o replace(Tail(runs))

\* .substring(0, n)
substring(runs, n) ==
    IF runs = <<>> \/ n = 0 THEN <<>>
    ELSE IF Head(runs).n <= n
         THEN <<Head(runs)>> \o substring(Tail(runs), n - Head(runs).n)
    ELSE << [c |-> Head(runs).c, n |-> n] >>

\* the same text with neighbouring runs of one character joined
Joined(runs) ==
    IF Len(runs) < 2 THEN runs
    ELSE IF runs[1].c = runs[2].c
         THEN Joined(<< [c |-> runs[1].c, n |-> runs[1].n + runs[2].n] >>
                     \o SubSeq(runs, 3, Len(runs)))
    ELSE <<runs[1]>> \o Joined(Tail(runs))

\* the white space removed after the control characters
sanitizeStripFirst(input) ==
    IF ~input.isString THEN <<>>
    ELSE Joined(substring(trim(replace(input.runs)), SanitizeMax))

\* sanitizeInput(input); input is [isString, runs]
sanitizeText(input) ==
    IF ~input.isString THEN <<>>
    ELSE Joined(substring(replace(trim(input.runs)), SanitizeMax))

\* the inputs tried: a value that is no string, and the texts of up to
\* MaxRuns runs
Runs == [c : Chars, n : RunLengths]
Texts == UNION { [1..k -> Runs] : k \in 0..MaxRuns }
SanitizeInputs ==
    { [isString |-> FALSE, runs |-> <<>>] }
    \cup { [isString |-> TRUE, runs |-> t] : t \in Texts }

SanitizeInit ==
    /\ CalcIdle
    /\ tz = 0
    /\ DialogIdle
    /\ StoreIdle
    /\ sIn \in SanitizeInputs
    /\ sOut = <<>>
    /\ LimiterIdle
    /\ AuthIdle
    /\ ConsoleIdle
    /\ RecIdle
    /\ AdminIdle
    /\ RoleIdle
    /\ RateIdle

Sanitize ==
    /\ sOut = <<>>
    /\ sOut' = << sanitizeText(sIn) >>
    /\ UNCHANGED sIn
    /\ UNCHANGED notSanitizeVars

\* sanitizeInput called on its own result
SanitizeAgain ==
    /\ Len(sOut) = 1
    /\ sOut' = Append(sOut, sanitizeText([isString |-> TRUE, runs |-> sOut[1]]))
    /\ UNCHANGED sIn
    /\ UNCHANGED notSanitizeVars

SanitizeNext == Sanitize \/ SanitizeAgain

SpecSanitize == SanitizeInit /\ [][SanitizeNext]_vars

----------------------------------------------------------------------------
(* RateLimiter check: calls on one instance as the clock advances *)

LimiterInit ==
    /\ CalcIdle
    /\ tz = 0
    /\ DialogIdle
    /\ StoreIdle
    /\ SanitizeIdle
    /\ LimiterIdle
    /\ AuthIdle
    /\ ConsoleIdle
    /\ RecIdle
    /\ AdminIdle
    /\ RoleIdle
    /\ RateIdle

\* a caller calls isAllowed(key)
CallIsAllowed(key) ==
    LET r == isAllowed(attempts, key, now)
    IN /\ attempts' = r.map
       /\ grants' = IF r.result
                    THEN [grants EXCEPT ![key][now] = @ + 1]
                    ELSE grants
       /\ lastCall' = [op |-> "isAllowed", key |-> key, result |-> r.result,
                       before |-> attempts]
       /\ UNCHANGED now

\* a caller calls reset(key); the grants counted for the key start afresh
CallReset(key) ==
    /\ attempts' = reset(attempts, key)
    /\ grants' = [grants EXCEPT ![key] = NoGrants[key]]
    /\ lastCall' = [op |-> "reset", key |-> key, result |-> FALSE,
                    before |-> attempts]
    /\ UNCHANGED now

\* time passes; grants more than windowMs old are in no interval of that
\* length with a later one and are no longer counted
Advance ==
    /\ \E t \in Instants : t > now /\ now' = t
    /\ grants' = [k \in Keys |-> [t \in Instants |->
                     IF t < now' - windowMs THEN 0 ELSE grants[k][t]]]
    /\ lastCall' = NoCall
    /\ UNCHANGED attempts

LimiterNext ==
    \/ \E key \in Keys : CallIsAllowed(key) /\ UNCHANGED notLimiterVars
    \/ \E key \in Keys : CallReset(key) /\ UNCHANGED notLimiterVars
    \/ (Advance /\ UNCHANGED notLimiterVars)

SpecLimiter == LimiterInit /\ [][LimiterNext]_vars

----------------------------------------------------------------------------
(* Authentication: the Auth page, AuthProvider and the identity service *)

AuthInit ==
    /\ CalcIdle
    /\ tz = 0
    /\ DialogIdle
    /\ StoreIdle
    /\ SanitizeIdle
    /\ LimiterIdle
    /\ AuthIdle
    /\ ConsoleIdle
    /\ RecIdle
    /\ AdminIdle
    /\ RoleIdle
    /\ RateIdle

\* handleLogin / handleSignup (kind) up to the await of the identity
\* service: the schema and the checks, then rateLimiter.isAllowed
Submit(kind, email) ==
    /\ ~authLoading
    /\ IF ~email.valid
       THEN /\ lastAuth' = [op |-> kind, key |-> sanitizedEmail(email),
                            outcome |-> "Invalid",
                            before |-> attempts[sanitizedEmail(email)]]
            /\ UNCHANGED <<attempts, identityCalls, authLoading, call>>
       ELSE LET key == sanitizedEmail(email)
                r == isAllowed(attempts, key, now)
            IN /\ attempts' = r.map
               /\ identityCalls' = IF r.result
                                   THEN [identityCalls EXCEPT
                                           ![key] = called(@, now)]
                                   ELSE identityCalls
               /\ lastAuth' = [op |-> kind, key |-> key,
                               outcome |-> IF r.result THEN "Pending"
                                           ELSE "RateLimited",
                               before |-> attempts[key]]
               /\ authLoading' = r.result
               /\ call' = IF r.result
                          THEN Some([kind |-> kind, key |-> key, gen |-> render])
                          ELSE Null
    /\ UNCHANGED <<render, now>>

handleLogin == \E email \in Emails : Submit("signIn", email)

handleSignup == \E email \in Emails : Submit("signUp", email)

\* the identity service answers without error: rateLimiter.reset on the
\* instance of the render that started the call, toast, navigate; the
\* calls counted for the email start afresh
AuthSucceeds ==
    /\ call # Null
    /\ identityCalls' = [identityCalls EXCEPT ![call[1].key] = Null]
    /\ attempts' = IF call[1].gen = render
                   THEN reset(attempts, call[1].key)
                   ELSE attempts
    /\ lastAuth' = [op |-> call[1].kind, key |-> call[1].key,
                    outcome |-> "Success", before |-> attempts[call[1].key]]
    /\ call' = Null
    /\ authLoading' = FALSE
    /\ UNCHANGED <<render, now>>

\* the identity service answers with an error: toast, rethrow
AuthFails ==
    /\ call # Null
    /\ lastAuth' = [op |-> call[1].kind, key |-> call[1].key,
                    outcome |-> "Failure", before |-> attempts[call[1].key]]
    /\ call' = Null
    /\ authLoading' = FALSE
    /\ UNCHANGED <<attempts, identityCalls, render, now>>

\* AuthProvider renders again (a state of the provider or the location
\* changed): its body runs new RateLimiter(5, 15 * 60 * 1000)
Rerender ==
    /\ render < MaxRenders
    /\ render' = render + 1
    /\ attempts' = NoAttempts
    /\ lastAuth' = [NoAuth EXCEPT !.op = "render"]
    /\ UNCHANGED <<identityCalls, authLoading, call, now>>

\* time passes
AuthAdvance ==
    /\ \E t \in Instants : t > now /\ now' = t
    /\ lastAuth' = NoAuth
    /\ UNCHANGED <<attempts, identityCalls, render, authLoading, call>>

AuthNext ==
    \/ (handleLogin /\ UNCHANGED notAuthVars)
    \/ (handleSignup /\ UNCHANGED notAuthVars)
    \/ (AuthSucceeds /\ UNCHANGED notAuthVars)
    \/ (AuthFails /\ UNCHANGED notAuthVars)
    \/ (Rerender /\ UNCHANGED notAuthVars)
    \/ (AuthAdvance /\ UNCHANGED notAuthVars)

SpecAuth == AuthInit /\ [][AuthNext]_vars

----------------------------------------------------------------------------
(* Calculator check: every input of the bounded space, one call *)

ValidTimes ==
    { Time(h, m) : h \in 0..23, m \in { x \in 0..59 : x % MinuteStep = 0 } }

CalcTimes == ValidTimes \cup {AbsentStr, EmptyStr, TextStr}

CalcInit ==
    /\ cIn \in [startTime : CalcTimes, endTime : CalcTimes, hasLunch : BOOLEAN]
    /\ cOut = <<>>
    /\ tz = 0
    /\ DialogIdle
    /\ StoreIdle
    /\ SanitizeIdle
    /\ LimiterIdle
    /\ AuthIdle
    /\ ConsoleIdle
    /\ RecIdle
    /\ AdminIdle
    /\ RoleIdle
    /\ RateIdle

Calculate ==
    /\ cOut = <<>>
    /\ cOut' = << [dialog |-> calculateOvertime(cIn.startTime, cIn.endTime, cIn.hasLunch),
                   auto   |-> calculateOvertimeAuto(cIn.startTime, cIn.endTime, cIn.hasLunch),
                   edit   |-> calculateOvertimeEdit(cIn.startTime, cIn.endTime, cIn.hasLunch)] >>
    /\ UNCHANGED cIn
    /\ UNCHANGED notCalcVars

CalcNext == Calculate

SpecCalc == CalcInit /\ [][CalcNext]_vars

----------------------------------------------------------------------------
(* Properties of the calculator (checked under SpecCalc) *)

\* minutes since midnight of a well-formed time of day
ClockMinutes(t) == t.h * 60 + t.m

IsClockTime(t) == t.k = "time" /\ t.h \in 0..23 /\ t.m \in 0..59

\* v is num / den rounded to the nearest integer (either way on a tie)
IsRounded(v, num, den) ==
    LET diff == v * den - num
    IN 2 * (IF diff < 0 THEN -diff ELSE diff) <= den

\* C1: for valid times with endTime after startTime on the same day, the
\* add-entry and the edit calculator return totalHours equal to
\* (endMinutes - startMinutes) / 60 rounded to 2 decimals.
C1_SameDayTotalHours ==
    (/\ cOut # <<>>
     /\ IsClockTime(cIn.startTime) /\ IsClockTime(cIn.endTime)
     /\ ClockMinutes(cIn.endTime) > ClockMinutes(cIn.startTime))
    => LET delta == ClockMinutes(cIn.endTime) - ClockMinutes(cIn.startTime)
       IN /\ cOut[1].dialog # Null
          /\ IsRounded(cOut[1].dialog[1].totalHours, delta * 100, 60)
          /\ cOut[1].edit # Null
          /\ IsRounded(cOut[1].edit[1].totalHours, delta * 100, 60)

\* 08:00-08:40 has been calculated: 0.666... hours, returned as 0.67
C1_Witness ==
    /\ cOut # <<>>
    /\ cIn.startTime = Time(8, 0) /\ cIn.endTime = Time(8, 40)
    /\ cOut[1].dialog # Null
    /\ cOut[1].dialog[1].totalHours = 67

\* C2: for valid times with endTime numerically before startTime the shift
\* crosses midnight: totalHours is (endMinutes - startMinutes + 1440) / 60
\* rounded to 2 decimals, and 23:00-01:00 without lunch gives totalHours
\* 2.00 and netHours 2.00.
C2_OvernightWraparound ==
    (/\ cOut # <<>>
     /\ IsClockTime(cIn.startTime) /\ IsClockTime(cIn.endTime)
     /\ ClockMinutes(cIn.endTime) < ClockMinutes(cIn.startTime))
    => LET delta == ClockMinutes(cIn.endTime) - ClockMinutes(cIn.startTime) + 1440
       IN /\ cOut[1].dialog # Null
          /\ IsRounded(cOut[1].dialog[1].totalHours, delta * 100, 60)
          /\ (/\ cIn.startTime = Time(23, 0) /\ cIn.endTime = Time(1, 0)
              /\ ~cIn.hasLunch)
             => /\ cOut[1].dialog[1].totalHours = 200
                /\ cOut[1].dialog[1].netHours = 200

\* 23:00-01:00 without lunch has been calculated
C2_Witness ==
    /\ cOut # <<>>
    /\ cIn.startTime = Time(23, 0) /\ cIn.endTime = Time(1, 0)
    /\ ~cIn.hasLunch
    /\ cOut[1].dialog # Null
    /\ cOut[1].dialog[1].totalHours = 200

\* the lunch rule of C3 for one calculator result r
LunchByFlagOnly(r) ==
    /\ r # Null
    /\ r[1].lunchDiscount = cIn.hasLunch
    /\ r[1].netHours = (IF cIn.hasLunch THEN r[1].totalHours - 100
                                        ELSE r[1].totalHours)
    /\ LET delta == ClockMinutes(cIn.endTime) - ClockMinutes(cIn.startTime)
           total == IF delta < 0 THEN delta + 1440 ELSE delta
           net   == IF cIn.hasLunch THEN total - 60 ELSE total
       IN IsRounded(r[1].totalValue, net * HOURLY_RATE, 60)

\* C3: in every calculator of the repository the lunch deduction follows the
\* flag passed in and never the shift length: netHours is totalHours - 1
\* with the flag and totalHours without it, the returned lunchDiscount is
\* the flag, and totalValue is the net hours times the hourly rate rounded
\* to 2 decimals.
C3_LunchByFlagOnly ==
    (/\ cOut # <<>>
     /\ IsClockTime(cIn.startTime) /\ IsClockTime(cIn.endTime))
    => /\ LunchByFlagOnly(cOut[1].dialog)
       /\ LunchByFlagOnly(cOut[1].edit)
       /\ LunchByFlagOnly(cOut[1].auto)

\* C4: the calculator returns null exactly when startTime or endTime is
\* empty or absent; every other input, a zero-length shift and a shift with
\* net hours <= 0 included, gets a result record.
C4_NullIffMissing ==
    cOut # <<>>
    => ((cOut[1].dialog = Null)
        <=> (\/ cIn.startTime.k \in {"absent", "empty"}
             \/ cIn.endTime.k \in {"absent", "empty"}))

\* a half-hour shift with lunch has been calculated: a record with net
\* hours -0.50
C4_Witness ==
    /\ cOut # <<>>
    /\ cIn.startTime = Time(8, 0) /\ cIn.endTime = Time(8, 30)
    /\ cIn.hasLunch
    /\ cOut[1].dialog # Null
    /\ cOut[1].dialog[1].netHours = -50

\* C5: when startTime and endTime are the same clock time, totalHours is 0:
\* the 24-hour wraparound is applied to a strictly negative difference only.
C5_ZeroLengthShift ==
    (/\ cOut # <<>>
     /\ IsClockTime(cIn.startTime)
     /\ cIn.endTime = cIn.startTime)
    => /\ cOut[1].dialog # Null
       /\ cOut[1].dialog[1].totalHours = 0

\* 00:00-00:00 without lunch has been calculated
C5_Witness ==
    /\ cOut # <<>>
    /\ cIn.startTime = Time(0, 0) /\ cIn.endTime = Time(0, 0)
    /\ ~cIn.hasLunch
    /\ cOut[1].dialog # Null

----------------------------------------------------------------------------
(* Properties of the entry-creation validator (checked under Spec).  The   *)
(* checks are stated on the submitted values themselves: on the form, the  *)
(* clock and the calculation as they stand when handleSubmit is called.    *)

\* the text with its surrounding whitespace removed
Trimmed(s) == [s EXCEPT !.pad = FALSE]

IsPresent(s) == s.k \notin {"absent", "empty"}

IsCalendarDate(s) == s.k = "date" /\ s.real

\* the checks of the validator, in its order
CheckOrder ==
    << "MissingField", "InvalidDate", "InvalidTime", "FutureDate",
       "InvalidTimeRange", "NonPositiveHours" >>

\* the checks the submitted values violate
Violated ==
    LET date == Trimmed(form.date)
        startTime == Trimmed(form.startTime)
        endTime == Trimmed(form.endTime)
    IN { tag \in {"MissingField"} :
           ~IsPresent(form.date) \/ ~IsPresent(form.startTime)
                                 \/ ~IsPresent(form.endTime) }
       \cup { tag \in {"InvalidDate"} : ~IsCalendarDate(date) }
       \cup { tag \in {"InvalidTime"} :
                ~IsClockTime(startTime) \/ ~IsClockTime(endTime) }
       \cup { tag \in {"FutureDate"} : IsCalendarDate(date) /\ date.d > today }
       \cup { tag \in {"InvalidTimeRange"} :
                /\ IsClockTime(startTime) /\ IsClockTime(endTime)
                /\ ~(ClockMinutes(startTime) < ClockMinutes(endTime)) }
       \cup { tag \in {"NonPositiveHours"} :
                calculation # Null /\ calculation[1].netHours <= 0 }

\* the first check of the order that is violated
EarliestViolated ==
    CheckOrder[CHOOSE i \in 1..6 :
                 /\ CheckOrder[i] \in Violated
                 /\ \A j \in 1..(i - 1) : CheckOrder[j] \notin Violated]

\* the last step was a handleSubmit call that went on to the checks
Validated == lastSubmit \notin {"none", "Dropped"}

\* C6: the validator runs MissingField, InvalidDate, InvalidTime,
\* FutureDate, InvalidTimeRange, NonPositiveHours in this order and stops at
\* the first failure: a submission violating several checks is reported
\* with the earliest violated one.
C6_EarliestFailureReported ==
    (Validated /\ Cardinality(Violated) >= 2)
    => lastSubmit = EarliestViolated

\* C7: a submission whose date is after today's local date (its only
\* fault, as for tomorrow with 08:00-17:00) is rejected with FutureDate and
\* no insert is issued, whatever the offset between local time and UTC.
C7_FutureDateRejected ==
    (/\ Validated
     /\ Violated = {"FutureDate"})
    => (lastSubmit = "FutureDate" /\ lastInsert = Null)

\* C8: for times that pass the format check, a submission that reaches the
\* range check is rejected with InvalidTimeRange, with no insert, unless
\* startTime is strictly before endTime as same-day clock values.
C8_TimeRangeRejected ==
    (/\ Validated
     /\ lastSubmit \notin {"MissingField", "InvalidDate", "InvalidTime",
                           "FutureDate"}
     /\ "InvalidTimeRange" \in Violated)
    => (lastSubmit = "InvalidTimeRange" /\ lastInsert = Null)

\* C9: a submission whose calculation has netHours <= 0 (and that passes
\* the earlier checks) is rejected with NonPositiveHours before any Record
\* Store call.
C9_NonPositiveHoursRejected ==
    (/\ Validated
     /\ Violated = {"NonPositiveHours"})
    => (lastSubmit = "NonPositiveHours" /\ lastInsert = Null)

\* C10: a submit attempt the validator does not accept makes no Record
\* Store call and shows a message: no attempt is dropped without either a
\* store call or a message.
C10_RejectedLocallyWithMessage ==
    (lastSubmit \notin {"none", "Insert"})
    => (lastInsert = Null /\ toast # "none")

----------------------------------------------------------------------------
(* Properties of the stored records (checked under SpecStore) *)

\* the flows wrote the record with the id in the last step
Written(id) ==
    /\ lastOp.kind \in {"create", "edit"}
    /\ lastOp.outcome \in {"stored", "updated"}
    /\ lastOp.id = id

\* what the CHECK constraints promise of a stored row, the date being
\* judged by the store's CURRENT_DATE at the write
RowChecked(row) ==
    /\ row.total_hours > 0
    /\ row.net_hours > 0
    /\ row.total_value > 0
    /\ ClockMinutes(row.start_time) < ClockMinutes(row.end_time)
    /\ row.date.d <= row.updated_at

\* every stored row is as the CHECK constraints promise
StoreConstraintsHold ==
    \A id \in RecordIds : records[id] # Null => RowChecked(records[id][1])

\* C11: every stored record has positive total hours, net hours and value
\* and a start time before its end time, and its date was not in the
\* future (by the local day of the user's clock) when a flow last wrote it
C11_StoredRecordsValid ==
    \A id \in RecordIds :
        records[id] # Null =>
            /\ records[id][1].total_hours > 0
            /\ records[id][1].net_hours > 0
            /\ records[id][1].total_value > 0
            /\ ClockMinutes(records[id][1].start_time)
                 < ClockMinutes(records[id][1].end_time)
            /\ Written(id) => records[id][1].date.d <= lastOp.day

\* C12: an edit whose values the creation flow's checks reject sends no
\* update to the Record Store.
C12_EditRevalidates ==
    (lastOp.kind = "edit" /\ lastOp.creation # "ok") => ~lastOp.sent

\* the user the row of a record belongs to, as a set: empty for no row
Owners(rec) == IF rec = Null THEN {} ELSE {rec[1].user_id}

\* a step changes a record only when the caller of the step owns the row
\* before and after it
OwnerOnlyWrites ==
    \A id \in RecordIds :
        records'[id] # records[id] =>
            Owners(records[id]) \cup Owners(records'[id]) = {lastOp'.caller}

\* a select returns to a user who is no admin rows of that user only, and
\* to an admin every row
ReadsByRole ==
    lastOp.kind = "select" =>
        IF has_role(lastOp.caller, "admin")
        THEN lastOp.read = { id \in RecordIds : records[id] # Null }
        ELSE lastOp.read =
               { id \in RecordIds : Owners(records[id]) = {lastOp.caller} }

\* C13: a record is created, changed and deleted only by the user whose id
\* is its user_id, admins included; a user who is no admin reads only that
\* user's records and an admin reads all.
C13_OwnerOnly == [][OwnerOnlyWrites]_vars /\ []ReadsByRole

\* an admin called update on the record of another user
C13_Witness ==
    /\ lastOp.kind = "apiUpdate"
    /\ has_role(lastOp.caller, "admin")
    /\ lastOp.before # Null
    /\ lastOp.before[1].user_id # lastOp.caller

\* the minutes of a stored row that are paid
NetMinutes(row) ==
    ClockMinutes(row.end_time) - ClockMinutes(row.start_time)
      - (IF row.lunch_discount THEN 60 ELSE 0)

C15_EditKeepsIdentity ==
    (lastOp.kind = "edit" /\ lastOp.outcome = "updated") =>
        /\ records[lastOp.id] # Null
        /\ records[lastOp.id][1].user_id = lastOp.before[1].user_id
        /\ records[lastOp.id][1].hourly_rate = lastOp.before[1].hourly_rate

\* an edit changed a record that carries the old rate
C15_Witness ==
    /\ lastOp.kind = "edit" /\ lastOp.outcome = "updated"
    /\ lastOp.before[1].hourly_rate = OldRate
    /\ records[lastOp.id] # lastOp.before

----------------------------------------------------------------------------
(* Properties of sanitizeInput (checked under SpecSanitize) *)

RECURSIVE TextLength(_)

\* the number of characters of a text
TextLength(runs) ==
    IF runs = <<>> THEN 0 ELSE Head(runs).n + TextLength(Tail(runs))

\* the text holds an ASCII control character (0x00-0x1F, 0x7F)
HasControl(runs) == \E i \in 1..Len(runs) : IsControl(runs[i].c)

\* the text from its first to its last character that is no white space
WithoutOuterSpace(runs) ==
    LET inner == { i \in 1..Len(runs) : ~IsWhitespace(runs[i].c) }
    IN IF inner = {} THEN <<>>
       ELSE SubSeq(runs, CHOOSE i \in inner : \A j \in inner : i <= j,
                         CHOOSE i \in inner : \A j \in inner : i >= j)

IsNoControlRun(run) == ~IsControl(run.c)

\* the characters of the text that are no control characters
WithoutControl(runs) == SelectSeq(runs, IsNoControlRun)

IsNoEmptyRun(run) == run.n > 0

\* the first n characters of the text
FirstChars(runs, n) ==
    LET room(i) == n - TextLength(SubSeq(runs, 1, i - 1))
        kept(i) == IF room(i) <= 0 THEN 0
                   ELSE IF runs[i].n <= room(i) THEN runs[i].n ELSE room(i)
    IN SelectSeq([i \in 1..Len(runs) |-> [c |-> runs[i].c, n |-> kept(i)]],
                 IsNoEmptyRun)

\* C16: sanitizeInput returns '' for a value that is no string; for a
\* string it returns the input trimmed, then stripped of the ASCII control
\* characters, then cut to its first 1000 characters, and the result holds
\* no control character and is at most 1000 characters long.
C16_SanitizeInput ==
    sOut # <<>> =>
        IF ~sIn.isString THEN sOut[1] = <<>>
        ELSE /\ sOut[1] = Joined(FirstChars(
                              WithoutControl(WithoutOuterSpace(sIn.runs)), 1000))
             /\ ~HasControl(sOut[1])
             /\ TextLength(sOut[1]) <= 1000

\* a text with a control character inside and more than 1000 other
\* characters has been sanitized
C16_Witness ==
    /\ sOut # <<>>
    /\ sIn.isString
    /\ HasControl(WithoutOuterSpace(sIn.runs))
    /\ TextLength(WithoutControl(WithoutOuterSpace(sIn.runs))) > 1000
    /\ TextLength(sOut[1]) = 1000

----------------------------------------------------------------------------
(* Properties of the RateLimiter (checked under SpecLimiter) *)

RECURSIVE GrantsAt(_, _)

\* the calls isAllowed(key) that returned true at the instants of the set
GrantsAt(key, instants) ==
    IF instants = {} THEN 0
    ELSE LET t == CHOOSE x \in instants : TRUE
         IN grants[key][t] + GrantsAt(key, instants \ {t})

\* the same in the interval of length windowMs that begins at from
GrantsInInterval(key, from) ==
    GrantsAt(key, { t \in Instants : from <= t /\ t < from + windowMs })

\* the same since the window of the key's entry began
GrantsInWindow(key) ==
    GrantsAt(key, { t \in Instants : t >= attempts[key][1].resetTime - windowMs })

\* C17 as stated: for every key, in any interval of length windowMs at most
\* maxAttempts calls isAllowed(key) return true.
C17_RollingWindow ==
    \A key \in Keys, from \in Instants :
        GrantsInInterval(key, from) <= maxAttempts

\* C17 amended: for every key, at most maxAttempts calls isAllowed(key)
\* return true in one window (from the call that starts it: the first call
\* for the key, the first after reset(key), or the first made more than
\* windowMs after the start of the window before); an interval of length
\* windowMs, which can span the end of a window, holds at most
\* 2 * maxAttempts - 1 of them.
C17_FixedWindow ==
    \A key \in Keys :
        /\ attempts[key] # Null => GrantsInWindow(key) <= maxAttempts
        /\ \A from \in Instants :
              GrantsInInterval(key, from) <= 2 * maxAttempts - 1

\* a call was refused after maxAttempts calls of the window returned true
C17_Witness ==
    /\ lastCall.op = "isAllowed"
    /\ ~lastCall.result
    /\ GrantsInWindow(lastCall.key) = maxAttempts

\* C18: the first isAllowed(key) made after the first attempt's time plus
\* windowMs has passed returns true and starts a window with count 1, also
\* for a blocked key; a refused call changes neither the count nor the
\* time of the reset.
C18_WindowExpiry ==
    lastCall.op = "isAllowed" =>
        LET before == lastCall.before[lastCall.key]
            after == attempts[lastCall.key]
        IN /\ (before # Null /\ now > before[1].resetTime) =>
                 /\ lastCall.result
                 /\ after = Some([count |-> 1, resetTime |-> now + windowMs])
           /\ ~lastCall.result => after = before

\* a blocked key was called after its window had passed
C18_Witness ==
    /\ lastCall.op = "isAllowed"
    /\ lastCall.before[lastCall.key] # Null
    /\ lastCall.before[lastCall.key][1].count = maxAttempts
    /\ now > lastCall.before[lastCall.key][1].resetTime
    /\ lastCall.result

----------------------------------------------------------------------------
(* Properties of authentication under the limiter (checked under SpecAuth) *)

\* the step is the answer of the identity service to the call in flight
Answered == call # Null /\ call' = Null

\* a successful signIn or signUp leaves no entry for its email and leaves
\* the entries of the other keys alone; a failed one leaves every entry
ResetOnlyOnSuccess ==
    Answered =>
        /\ lastAuth'.outcome = "Success" =>
              /\ attempts'[call[1].key] = Null
              /\ \A k \in Keys \ {call[1].key} : attempts'[k] = attempts[k]
        /\ lastAuth'.outcome = "Failure" => attempts' = attempts

\* C19: reset(key) clears the key and no other; it is called on every
\* successful signIn and signUp for the normalized email, after which the
\* limiter holds no entry for the email; a failed authentication calls no
\* reset.
C19_ResetOnSuccess == [][ResetOnlyOnSuccess]_vars

\* a sign-in succeeded for an email with counted attempts while another
\* key has counted attempts
C19_Witness ==
    /\ lastAuth.outcome = "Success"
    /\ lastAuth.before # Null
    /\ \E k \in Keys \ {lastAuth.key} : attempts[k] # Null

\* the entry of a key goes or starts again only by reset(key) after a
\* success or by a call made after its window has passed
AttemptsKept ==
    \A k \in Keys :
        (attempts[k] # Null /\ attempts'[k] # attempts[k]) =>
            \/ /\ attempts'[k] # Null
               /\ attempts'[k][1].resetTime = attempts[k][1].resetTime
               /\ attempts'[k][1].count = attempts[k][1].count + 1
            \/ /\ Answered
               /\ lastAuth'.outcome = "Success"
               /\ call[1].key = k
               /\ attempts'[k] = Null
            \/ /\ now > attempts[k][1].resetTime
               /\ attempts'[k] = Some([count |-> 1, resetTime |-> now + windowMs])

\* C20: the attempts the limiter has counted are discarded only by
\* reset(key) or by the expiry of the window; no other event, such as a
\* change of the auth state or a render of the auth provider, makes the
\* limiter forget them.
C20_AttemptsKept == [][AttemptsKept]_vars

----------------------------------------------------------------------------
(* Properties of the add-entry dialog's calculation (checked under Spec) *)

\* C24: the total_hours, net_hours and total_value of every insert the
\* add-entry dialog issues are those the calculator gives for the
\* start_time, end_time and lunch_discount of the same insert.
C24_NoStaleCalculation ==
    lastInsert # Null =>
        calculateOvertime(lastInsert[1].start_time, lastInsert[1].end_time,
                          lastInsert[1].lunch_discount)
          = Some([totalHours    |-> lastInsert[1].total_hours,
                  lunchDiscount |-> lastInsert[1].lunch_discount,
                  netHours      |-> lastInsert[1].net_hours,
                  totalValue    |-> lastInsert[1].total_value])

\* an insert was issued with the lunch discount ticked
C24_Witness ==
    /\ lastInsert # Null
    /\ lastInsert[1].lunch_discount
    /\ lastInsert[1].net_hours # lastInsert[1].total_hours

\* C28: sanitizeInput is idempotent: called on its own result it returns
\* that result.
C28_Idempotent ==
    (sIn.isString /\ Len(sOut) = 2) => sOut[2] = sOut[1]

----------------------------------------------------------------------------
(* Calls of the identity service (checked under SpecAuth)                   *)

\* signIn or signUp reaches the await of the identity service
IdentityCallStarted == call = Null /\ call' # Null

\* the identity service is called only when isAllowed has returned true for
\* the normalized email in that call; a submit that validation rejects
\* leaves the limiter as it was; the calls made for an email since its
\* window began, sign-in and sign-up together, are at most maxAttempts
IdentityCallsLimited ==
    /\ IdentityCallStarted => isAllowed(attempts, call'[1].key, now).result
    /\ lastAuth'.outcome = "Invalid" => attempts' = attempts
    /\ \A key \in Keys :
          identityCalls'[key] # Null =>
              identityCalls'[key][1].count <= maxAttempts

\* C30: signIn and signUp call the identity service only after isAllowed
\* returned true in the same call for the normalized email; a submit
\* rejected by validation consumes no attempt; so, without a successful
\* authentication, at most maxAttempts calls of the identity service are
\* made in one window for one email, whatever the letter case and whether
\* they are sign-ins or sign-ups.
C30_IdentityCallsLimited == [][IdentityCallsLimited]_vars

----------------------------------------------------------------------------
(* useSecurity: calls of console methods and of logSecurityEvent            *)

ConsoleInit ==
    /\ CalcIdle
    /\ tz = 0
    /\ DialogIdle
    /\ StoreIdle
    /\ SanitizeIdle
    /\ LimiterIdle
    /\ AuthIdle
    /\ ConsoleIdle
    /\ RecIdle
    /\ AdminIdle
    /\ RoleIdle
    /\ RateIdle

\* console[key](...) as console is now: under mounts wrappers
consoleCall(key, by) ==
    [key |-> key, level |-> mounts, pc |-> "access", by |-> by]

Top == frames[Len(frames)]

Pop == SubSeq(frames, 1, Len(frames) - 1)

\* the effect of a use of the hook runs: originalConsole = { ...console },
\* then every method is replaced by a wrapper
MountHook ==
    /\ frames = <<>>
    /\ mounts < MaxMounts
    /\ mounts' = mounts + 1
    /\ UNCHANGED <<frames, lastRun>>

\* the cleanup of the latest effect puts back the methods it replaced
UnmountHook ==
    /\ frames = <<>>
    /\ mounts > 0
    /\ mounts' = mounts - 1
    /\ UNCHANGED <<frames, lastRun>>

\* some code of the page calls console[key](...)
ConsoleCall(key) ==
    /\ frames = <<>>
    /\ frames' = <<consoleCall(key, "caller")>>
    /\ lastRun' = [entry |-> key, event |-> "", mounted |-> mounts > 0,
               logged |-> 0, invoked |-> 0, outcome |-> "running"]
    /\ UNCHANGED mounts

\* validateInput or the fetch monitor calls logSecurityEvent(event, details),
\* whose body is console.warn(`[SECURITY] ${event}`, details)
LogSecurityEventCall(event) ==
    /\ frames = <<>>
    /\ frames' = <<consoleCall("warn", "logSecurityEvent")>>
    /\ lastRun' = [entry |-> "logSecurityEvent", event |-> event,
               mounted |-> mounts > 0, logged |-> 0, invoked |-> 0,
               outcome |-> "running"]
    /\ UNCHANGED mounts

\* the call on top of the stack is the native method: it writes and returns
Native ==
    /\ frames # <<>>
    /\ Top.level = 0
    /\ frames' = Pop
    /\ lastRun' = [lastRun EXCEPT
                 !.logged = IF Top.by = "logSecurityEvent" THEN @ + 1 ELSE @,
                 !.invoked = IF Top.by = "caller" THEN @ + 1 ELSE @,
                 !.outcome = IF Pop = <<>> THEN "returned" ELSE @]
    /\ UNCHANGED mounts

\* the call on top of the stack is a wrapper: handleConsoleAccess(), which
\* calls logSecurityEvent and so console.warn as console is now, then
\* return originalConsole[key](...args)
Wrapper ==
    /\ frames # <<>>
    /\ Top.level > 0
    /\ IF Top.pc = "return"
       THEN /\ frames' = Pop
            /\ lastRun' = [lastRun EXCEPT
                         !.outcome = IF Pop = <<>> THEN "returned" ELSE @]
       ELSE IF Len(frames) = MaxStack
       THEN /\ frames' = <<>>
            /\ lastRun' = [lastRun EXCEPT !.outcome = "RangeError"]
       ELSE IF Top.pc = "access"
       THEN /\ frames' = Append([frames EXCEPT ![Len(frames)].pc = "original"],
                                consoleCall("warn", "logSecurityEvent"))
            /\ UNCHANGED lastRun
       ELSE /\ frames' = Append([frames EXCEPT ![Len(frames)].pc = "return"],
                                [key |-> Top.key, level |-> Top.level - 1,
                                 pc |-> "access", by |-> Top.by])
            /\ UNCHANGED lastRun
    /\ UNCHANGED mounts

ConsoleNext ==
    \/ (MountHook /\ UNCHANGED notConsoleVars)
    \/ (UnmountHook /\ UNCHANGED notConsoleVars)
    \/ \E key \in Methods : ConsoleCall(key) /\ UNCHANGED notConsoleVars
    \/ \E event \in Events : LogSecurityEventCall(event) /\ UNCHANGED notConsoleVars
    \/ (Native /\ UNCHANGED notConsoleVars)
    \/ (Wrapper /\ UNCHANGED notConsoleVars)

SpecConsole == ConsoleInit /\ [][ConsoleNext]_vars

\* a call in progress runs on: the script is not interrupted
FairSpecConsole ==
    SpecConsole /\ WF_vars(Native /\ UNCHANGED notConsoleVars)
                /\ WF_vars(Wrapper /\ UNCHANGED notConsoleVars)

----------------------------------------------------------------------------
(* Termination of the console calls (checked under FairSpecConsole)         *)

\* a console method is called while the console is patched
PatchedConsoleCalled ==
    lastRun.outcome = "running" /\ lastRun.mounted /\ lastRun.entry \in Methods

\* logSecurityEvent is called while the console is patched
PatchedLogCalled ==
    lastRun.outcome = "running" /\ lastRun.mounted /\ lastRun.entry = "logSecurityEvent"

\* C27: while the security hook is mounted, every call of a console method
\* terminates, having logged exactly one 'Console access detected' event
\* and invoked the original method exactly once, and every call of
\* logSecurityEvent returns after a single console.warn.
C27_ConsoleCallsTerminate ==
    /\ PatchedConsoleCalled ~>
          (lastRun.outcome = "returned" /\ lastRun.logged = 1 /\ lastRun.invoked = 1)
    /\ PatchedLogCalled ~> (lastRun.outcome = "returned" /\ lastRun.logged = 1)

----------------------------------------------------------------------------
(* check_rate_limit: calls one after the other (SpecRate) and calls of      *)
(* several sessions within one minute, statement by statement             *)
(* (SpecRateConcurrent)                                                     *)

RateInit ==
    /\ CalcIdle
    /\ tz = 0
    /\ DialogIdle
    /\ StoreIdle
    /\ SanitizeIdle
    /\ LimiterIdle
    /\ AuthIdle
    /\ ConsoleIdle
    /\ RecIdle
    /\ AdminIdle
    /\ RoleIdle
    /\ RateEmpty
    /\ limitArgs \in LimitArgs

\* the DELETE, the window start and the SELECT of a call by session s
SqlSelect(s, key) ==
    /\ sessions[s] = Null
    /\ rate_limits' = cleaned(rate_limits, sqlNow)
    /\ sessions' = [sessions EXCEPT ![s] =
          Some([key |-> key, at |-> sqlNow,
                v_window_start |-> windowStart(sqlNow),
                v_attempts |-> selectAttempts(rate_limits', key,
                                              windowStart(sqlNow))])]
    /\ UNCHANGED <<sqlNow, limitArgs, trues, lastCheck>>

\* the IF, the INSERT ... ON CONFLICT and the RETURN of the call of session s
SqlFinish(s) ==
    /\ sessions[s] # Null
    /\ LET c == sessions[s][1]
       IN /\ rate_limits' = IF blocked(c.v_attempts) THEN rate_limits
                            ELSE upsert(rate_limits, c.key, c.v_window_start)
          /\ trues' = IF blocked(c.v_attempts) THEN trues
                      ELSE [trues EXCEPT ![c.key][c.at] = @ + 1]
          /\ lastCheck' = [key |-> c.key, result |-> ~blocked(c.v_attempts),
                           found |-> rate_limits, at |-> c.at]
    /\ sessions' = [sessions EXCEPT ![s] = Null]
    /\ UNCHANGED <<sqlNow, limitArgs>>

\* a whole call of check_rate_limit with no other call during it
check_rate_limit(key) ==
    LET ws == windowStart(sqlNow)
        table == cleaned(rate_limits, sqlNow)
        v_attempts == selectAttempts(table, key, ws)
    IN /\ rate_limits' = IF blocked(v_attempts) THEN table
                         ELSE upsert(table, key, ws)
       /\ trues' = IF blocked(v_attempts) THEN trues
                   ELSE [trues EXCEPT ![key][sqlNow] = @ + 1]
       /\ lastCheck' = [key |-> key, result |-> ~blocked(v_attempts),
                        found |-> table, at |-> sqlNow]
       /\ UNCHANGED <<sqlNow, limitArgs, sessions>>

\* time passes; the calls begun p_window_minutes or more before are in no
\* period of that length with a later one and are no longer counted
SqlAdvance ==
    /\ \E t \in SqlMinutes : t > sqlNow /\ sqlNow' = t
    /\ trues' = [k \in RateKeys |-> [t \in SqlMinutes |->
                    IF t <= sqlNow' - limitArgs.window THEN 0 ELSE trues[k][t]]]
    /\ lastCheck' = NoCheck
    /\ UNCHANGED <<rate_limits, limitArgs, sessions>>

RateNext ==
    \/ \E key \in RateKeys : check_rate_limit(key) /\ UNCHANGED notRateVars
    \/ (SqlAdvance /\ UNCHANGED notRateVars)

SpecRate == RateInit /\ [][RateNext]_vars

RateConcurrentNext ==
    \/ \E s \in Sessions, key \in RateKeys :
          SqlSelect(s, key) /\ UNCHANGED notRateVars
    \/ \E s \in Sessions : SqlFinish(s) /\ UNCHANGED notRateVars

SpecRateConcurrent == RateInit /\ [][RateConcurrentNext]_vars

----------------------------------------------------------------------------
(* Properties of check_rate_limit                                           *)

RECURSIVE TruesAt(_, _)
\* the calls for key begun at the minutes given that returned TRUE
TruesAt(key, minutes) ==
    IF minutes = {} THEN 0
    ELSE LET t == CHOOSE x \in minutes : TRUE
         IN trues[key][t] + TruesAt(key, minutes \ {t})

\* C21 (checked under SpecRate): for every key, in any period of
\* p_window_minutes at most p_max_attempts calls return TRUE; a call that
\* returns FALSE increments nothing; after every call no row is left whose
\* window started more than an hour before.
C21_WindowedCounter ==
    /\ \A key \in RateKeys, from \in SqlMinutes :
          TruesAt(key, { t \in SqlMinutes :
                           from <= t /\ t < from + limitArgs.window })
            <= limitArgs.max
    /\ (lastCheck # NoCheck /\ ~lastCheck.result) =>
          rate_limits = lastCheck.found
    /\ lastCheck # NoCheck =>
          \A r \in rate_limits : r.window_start >= sqlNow - CleanupMinutes

\* C29 (checked under SpecRateConcurrent): whatever the interleaving of
\* the calls of several sessions, the attempts of a row never exceed
\* p_max_attempts, and no more than p_max_attempts calls return TRUE for
\* the row.
C29_AttemptsBounded ==
    /\ \A r \in rate_limits : r.attempts <= limitArgs.max
    /\ \A key \in RateKeys, t \in SqlMinutes : trues[key][t] <= limitArgs.max

----------------------------------------------------------------------------
(* AuthProvider: onAuthStateChange, getSession and checkAdminRole           *)

RoleInit ==
    /\ CalcIdle
    /\ tz = 0
    /\ DialogIdle
    /\ StoreIdle
    /\ SanitizeIdle
    /\ LimiterIdle
    /\ AuthIdle
    /\ ConsoleIdle
    /\ RecIdle
    /\ AdminIdle
    /\ RateIdle
    /\ RoleIdle

\* the select of checkAdminRole(u) sent with the session of the moment: .eq('user_id', u)
\* .eq('role', 'admin').maybeSingle() under "Users can view their own
\* roles"; data is whether a row comes back
roleLookup(u, session) ==
    [user |-> u, data |-> session = Some(u) /\ has_role(u, "admin")]

\* the callback of onAuthStateChange with the session of u, or with none
AuthStateChange(u) ==
    /\ sessionUser' = u
    /\ IF u # Null
       THEN /\ timers' = timers \cup {u[1]}
            /\ UNCHANGED isAdmin
       ELSE /\ isAdmin' = FALSE
            /\ UNCHANGED timers
    /\ UNCHANGED <<lookups, booted>>

\* the timer of the callback fires: checkAdminRole(u) sends its select
TimerFires(u) ==
    /\ u \in timers
    /\ Cardinality(lookups \cup {roleLookup(u, sessionUser)}) <= MaxLookups
    /\ timers' = timers \ {u}
    /\ lookups' = lookups \cup {roleLookup(u, sessionUser)}
    /\ UNCHANGED <<sessionUser, isAdmin, booted>>

\* getSession() resolves with the session of u, or with none
GetSessionResolves(u) ==
    /\ ~booted
    /\ sessionUser # Null => u = sessionUser
    /\ booted' = TRUE
    /\ sessionUser' = u
    /\ lookups' = IF u # Null THEN lookups \cup {roleLookup(u[1], u)}
                   ELSE lookups
    /\ Cardinality(lookups') <= MaxLookups
    /\ UNCHANGED <<isAdmin, timers>>

\* a select of checkAdminRole is answered: setIsAdmin(!!data)
LookupResolves(l) ==
    /\ l \in lookups
    /\ lookups' = lookups \ {l}
    /\ isAdmin' = l.data
    /\ UNCHANGED <<sessionUser, timers, booted>>

\* a select of checkAdminRole fails: setIsAdmin(false)
LookupFails(l) ==
    /\ l \in lookups
    /\ lookups' = lookups \ {l}
    /\ isAdmin' = FALSE
    /\ UNCHANGED <<sessionUser, timers, booted>>

Lookups == [user : Users, data : BOOLEAN]

RoleNext ==
    \/ \E u \in Users : AuthStateChange(Some(u)) /\ UNCHANGED notRoleVars
    \/ (AuthStateChange(Null) /\ UNCHANGED notRoleVars)
    \/ \E u \in Users : TimerFires(u) /\ UNCHANGED notRoleVars
    \/ \E u \in Users : GetSessionResolves(Some(u)) /\ UNCHANGED notRoleVars
    \/ (GetSessionResolves(Null) /\ UNCHANGED notRoleVars)
    \/ \E l \in Lookups : LookupResolves(l) /\ UNCHANGED notRoleVars
    \/ \E l \in Lookups : LookupFails(l) /\ UNCHANGED notRoleVars

SpecRole == RoleInit /\ [][RoleNext]_vars

\* no role lookup is outstanding
LookupsSettled == booted /\ timers = {} /\ lookups = {}

\* C25 (checked under SpecRole): once all outstanding role lookups have
\* completed, isAdmin is true only if a user is signed in and that user
\* holds the admin role, whatever the order in which the lookups complete.
C25_AdminOnlyForAdmin ==
    (LookupsSettled /\ isAdmin) =>
        (sessionUser # Null /\ has_role(sessionUser[1], "admin"))

----------------------------------------------------------------------------
(* The Admin page: fetchAllData, fetchEmployeeRecords, exportEmployeeData   *)

\* the overtime records a store can hold: user_id, the month of date,
\* net_hours in hundredths
AdminRows ==
    {[user_id |-> "u1", month |-> "2025-01", net_hours |-> 150],
     [user_id |-> "u1", month |-> "2025-02", net_hours |-> 200],
     [user_id |-> "u2", month |-> "2025-01", net_hours |-> 333]}

Months == {"2025-01", "2025-02"}

\* the days of the month
DaysIn(month) == IF month = "2025-02" THEN 28 ELSE 31

AdminInit ==
    /\ CalcIdle
    /\ tz = 0
    /\ DialogIdle
    /\ StoreIdle
    /\ SanitizeIdle
    /\ LimiterIdle
    /\ AuthIdle
    /\ ConsoleIdle
    /\ RecIdle
    /\ RateIdle
    /\ RoleIdle
    /\ AdminEmpty
    /\ adminDb \in [profiles : SUBSET Users, rows : SUBSET AdminRows]

RECURSIVE SumNet(_)
\* reduce((sum, r) => sum + Number(r.net_hours), 0)
SumNet(rows) ==
    IF rows = {} THEN 0
    ELSE LET r == CHOOSE x \in rows : TRUE
         IN r.net_hours + SumNet(rows \ {r})

\* the stats fetchGlobalStats sets from the rows it got and the employees
\* its closure holds
globalStats(rows, closed) ==
    LET totalHours == SumNet(rows)
        totalEmployees == Cardinality(closed)
    IN [totalEmployees |-> totalEmployees,
        totalHours |-> totalHours,
        averageHours |-> IF totalEmployees > 0
                         THEN MathRound(totalHours, totalEmployees) ELSE 0]

\* the effect of the page with isAdmin true: fetchAllData()
fetchAllData ==
    /\ load = NoLoad
    /\ load' = [employees |-> "profiles", stats |-> "pending", top |-> "pending"]
    /\ loadEmployees' = employees
    /\ adminLoading' = TRUE
    /\ UNCHANGED <<adminDb, employees, stats, selectedEmployee, dateFilter,
                   shown, fetches, lastExport>>

\* fetchEmployees: the select on profiles is answered
ProfilesAnswer ==
    /\ load.employees = "profiles"
    /\ load' = [load EXCEPT !.employees = "records"]
    /\ UNCHANGED <<adminDb, employees, loadEmployees, adminLoading, stats,
                   selectedEmployee, dateFilter, shown, fetches, lastExport>>

\* fetchEmployees: the select on overtime_records is answered, setEmployees
EmployeesAnswer ==
    /\ load.employees = "records"
    /\ load' = [load EXCEPT !.employees = "done"]
    /\ employees' = adminDb.profiles
    /\ UNCHANGED <<adminDb, loadEmployees, adminLoading, stats,
                   selectedEmployee, dateFilter, shown, fetches, lastExport>>

\* fetchGlobalStats: its select is answered, setStats
StatsAnswer ==
    /\ load.stats = "pending"
    /\ load' = [load EXCEPT !.stats = "done"]
    /\ stats' = globalStats(adminDb.rows, loadEmployees)
    /\ UNCHANGED <<adminDb, employees, loadEmployees, adminLoading,
                   selectedEmployee, dateFilter, shown, fetches, lastExport>>

\* fetchTopEmployees: its select is answered
TopAnswer ==
    /\ load.top = "pending"
    /\ load' = [load EXCEPT !.top = "done"]
    /\ UNCHANGED <<adminDb, employees, loadEmployees, adminLoading, stats,
                   selectedEmployee, dateFilter, shown, fetches, lastExport>>

\* Promise.all resolves: finally setIsLoading(false)
LoadEnds ==
    /\ load = [employees |-> "done", stats |-> "done", top |-> "done"]
    /\ adminLoading
    /\ adminLoading' = FALSE
    /\ UNCHANGED <<adminDb, employees, loadEmployees, load, stats,
                   selectedEmployee, dateFilter, shown, fetches, lastExport>>

\* fetchEmployeeRecords(userId, dateFilter) up to its await
recordFetch(userId, filter) == [user_id |-> userId, month |-> filter]

\* handleEmployeeChange(value), from the button of an employee listed
handleEmployeeChange(value) ==
    /\ ~adminLoading
    /\ value \in employees
    /\ selectedEmployee' = value
    /\ fetches' = fetches \cup {recordFetch(value, dateFilter)}
    /\ Cardinality(fetches') <= MaxFetches
    /\ UNCHANGED <<adminDb, employees, loadEmployees, load, adminLoading,
                   stats, dateFilter, shown, lastExport>>

\* handleDateFilterChange(value), from the month input or its clear button
handleDateFilterChange(value) ==
    /\ ~adminLoading
    /\ selectedEmployee \in employees
    /\ dateFilter' = value
    /\ fetches' = fetches \cup {recordFetch(selectedEmployee, value)}
    /\ Cardinality(fetches') <= MaxFetches
    /\ UNCHANGED <<adminDb, employees, loadEmployees, load, adminLoading,
                   stats, selectedEmployee, shown, lastExport>>

\* the rows with user_id = userId and, under a filter, date from the 1st to
\* the 31st of the month
selected(userId, filter) ==
    { r \in adminDb.rows :
        r.user_id = userId /\ (filter = "" \/ r.month = filter) }

\* a select of fetchEmployeeRecords is answered: setRecords(data), or an
\* error when `${year}-${month}-31` is no date, which leaves records
RecordsAnswer(f) ==
    /\ f \in fetches
    /\ fetches' = fetches \ {f}
    /\ shown' = IF f.month # "" /\ DaysIn(f.month) < 31 THEN shown
                ELSE selected(f.user_id, f.month)
    /\ UNCHANGED <<adminDb, employees, loadEmployees, load, adminLoading,
                   stats, selectedEmployee, dateFilter, lastExport>>

\* exportEmployeeData: the CSV of records under the name of the employee
\* selected
exportEmployeeData ==
    /\ ~adminLoading
    /\ selectedEmployee \in employees
    /\ shown # {}
    /\ lastExport' = Some([name |-> selectedEmployee, rows |-> shown])
    /\ UNCHANGED <<adminDb, employees, loadEmployees, load, adminLoading,
                   stats, selectedEmployee, dateFilter, shown, fetches>>

RecordFetches == [user_id : Users, month : Months \cup {""}]

AdminNext ==
    \/ (fetchAllData /\ UNCHANGED notAdminVars)
    \/ (ProfilesAnswer /\ UNCHANGED notAdminVars)
    \/ (EmployeesAnswer /\ UNCHANGED notAdminVars)
    \/ (StatsAnswer /\ UNCHANGED notAdminVars)
    \/ (TopAnswer /\ UNCHANGED notAdminVars)
    \/ (LoadEnds /\ UNCHANGED notAdminVars)
    \/ \E value \in Users : handleEmployeeChange(value) /\ UNCHANGED notAdminVars
    \/ \E value \in Months \cup {""} :
          handleDateFilterChange(value) /\ UNCHANGED notAdminVars
    \/ \E f \in RecordFetches : RecordsAnswer(f) /\ UNCHANGED notAdminVars
    \/ (exportEmployeeData /\ UNCHANGED notAdminVars)

SpecAdmin == AdminInit /\ [][AdminNext]_vars

----------------------------------------------------------------------------
(* Properties of the Admin page (checked under SpecAdmin)                   *)

\* the initial load has completed
LoadCompleted == ~adminLoading

\* C23: after the initial load completes, stats.totalEmployees is the
\* number of employee profiles loaded and stats.averageHours is the total
\* of the net hours divided by that number (0 when none), rounded to two
\* decimals.
C23_StatsOfLoadedEmployees ==
    LoadCompleted =>
        stats = globalStats(adminDb.rows, employees)

\* C26: whenever no record fetch is in flight, the records shown are those
\* of the employee selected under the month filter set, and a CSV named
\* after an employee holds no record of another.
C26_RecordsOfSelection ==
    /\ (fetches = {} /\ selectedEmployee # "") =>
          shown = selected(selectedEmployee, dateFilter)
    /\ lastExport # Null =>
          \A r \in lastExport[1].rows : r.user_id = lastExport[1].name

----------------------------------------------------------------------------
(* OvertimeRecordActions beside the add-entry dialog: the submits of the    *)
(* three forms and the answers of the store                                 *)

FormsInit ==
    /\ CalcIdle
    /\ tz = 0
    /\ DialogIdle
    /\ StoreIdle
    /\ SanitizeIdle
    /\ LimiterIdle
    /\ AuthIdle
    /\ ConsoleIdle
    /\ RateIdle
    /\ RoleIdle
    /\ AdminIdle
    /\ RecIdle

\* a step of the component that shows nothing
RecQuiet ==
    /\ recToast' = "none"
    /\ recRefreshed' = FALSE

\* the values the fields of the edit form are given
EditDates == {EmptyStr, Date(0)}
EditTimes == {Time(8, 0), Time(17, 0)}

\* the add-entry dialog is closed and awaits no insert
AddDialogAtRest == ~open /\ inflight = 0

\* the edit button of the record: the dialog opens (no other dialog is open)
OpenEdit ==
    /\ recOpen = "none"
    /\ AddDialogAtRest
    /\ recOpen' = "edit"
    /\ RecQuiet
    /\ UNCHANGED <<recLoading, recCall, editData>>

\* the delete button of the record
OpenDelete ==
    /\ recOpen = "none"
    /\ AddDialogAtRest
    /\ recOpen' = "delete"
    /\ RecQuiet
    /\ UNCHANGED <<recLoading, recCall, editData>>

\* Cancelar, Escape or a click outside: setIsEditOpen(false) or
\* setIsDeleteOpen(false)
CloseRecDialog ==
    /\ recOpen # "none"
    /\ recOpen' = "none"
    /\ RecQuiet
    /\ UNCHANGED <<recLoading, recCall, editData>>

\* a field of the edit form is retyped
SetEditData ==
    /\ recOpen = "edit"
    /\ \/ \E v \in EditDates : editData' = [editData EXCEPT !.date = v]
       \/ \E v \in EditTimes : editData' = [editData EXCEPT !.startTime = v]
       \/ \E v \in EditTimes : editData' = [editData EXCEPT !.endTime = v]
       \/ editData' = [editData EXCEPT !.lunchDiscount = ~@]
    /\ editData' # editData
    /\ RecQuiet
    /\ UNCHANGED <<recOpen, recLoading, recCall>>

\* what the checks of handleEdit answer for editData
EditTag ==
    LET tag == ValidateEdit(editData.date, editData.startTime, editData.endTime)
    IN IF tag # "ok" THEN tag
       ELSE IF calculateOvertimeEdit(sanitizeInput(editData.startTime),
                                     sanitizeInput(editData.endTime),
                                     editData.lunchDiscount) = Null
       THEN "CalcError"
       ELSE "ok"

\* Salvar: handleEdit up to its await: the guard, the checks, then either
\* the catch and finally blocks or the update call
EditSave ==
    /\ recOpen = "edit"
    /\ ~recLoading
    /\ recRefreshed' = FALSE
    /\ IF user = Null
       THEN /\ recToast' = "none"
            /\ UNCHANGED <<recLoading, recCall>>
       ELSE IF EditTag = "ok"
       THEN /\ recToast' = "none"
            /\ recLoading' = TRUE
            /\ recCall' = Some("update")
       ELSE /\ recToast' = IF EditTag = "CalcError" THEN "Erro no calculo"
                           ELSE Message(EditTag)
            /\ recLoading' = FALSE
            /\ UNCHANGED recCall
    /\ UNCHANGED <<recOpen, editData>>

\* Excluir: handleDelete up to its await
DeleteConfirm ==
    /\ recOpen = "delete"
    /\ ~recLoading
    /\ recRefreshed' = FALSE
    /\ recToast' = "none"
    /\ IF user = Null
       THEN UNCHANGED <<recLoading, recCall>>
       ELSE /\ recLoading' = TRUE
            /\ recCall' = Some("delete")
    /\ UNCHANGED <<recOpen, editData>>

\* a handler that has no finally block
RecCallFailsLoading ==
    /\ recCall # Null
    /\ recCall' = Null
    /\ recToast' = IF recCall[1] = "update" THEN "Erro ao atualizar registro"
                   ELSE "Erro ao excluir registro"
    /\ recRefreshed' = FALSE
    /\ UNCHANGED <<recOpen, recLoading, editData>>

\* the update or delete resolved without error: success toast, the dialog
\* of the call closes, onUpdate() or onDelete() refreshes the list
RecCallSucceeds ==
    /\ recCall # Null
    /\ recCall' = Null
    /\ recToast' = IF recCall[1] = "update"
                   THEN "Registro atualizado com sucesso!"
                   ELSE "Registro excluido com sucesso!"
    /\ recOpen' = IF (recCall[1] = "update" /\ recOpen = "edit")
                     \/ (recCall[1] = "delete" /\ recOpen = "delete")
                  THEN "none" ELSE recOpen
    /\ recRefreshed' = TRUE
    /\ recLoading' = FALSE
    /\ UNCHANGED editData

\* the update or delete resolved with an error, or the call rejected
RecCallFails ==
    /\ recCall # Null
    /\ recCall' = Null
    /\ recToast' = IF recCall[1] = "update" THEN "Erro ao atualizar registro"
                   ELSE "Erro ao excluir registro"
    /\ recRefreshed' = FALSE
    /\ recLoading' = FALSE
    /\ UNCHANGED <<recOpen, editData>>

FormsNext ==
    \/ (SignIn /\ UNCHANGED notDialogVars)
    \/ (SignOut /\ UNCHANGED notDialogVars)
    \/ (OpenDialog /\ UNCHANGED notDialogVars)
    \/ (Cancel /\ UNCHANGED notDialogVars)
    \/ (SetDate /\ UNCHANGED notDialogVars)
    \/ (SetStartTime /\ UNCHANGED notDialogVars)
    \/ (SetEndTime /\ UNCHANGED notDialogVars)
    \/ (handleLunchChange /\ UNCHANGED notDialogVars)
    \/ (handleSubmit /\ UNCHANGED notDialogVars)
    \/ (InsertSucceeds /\ UNCHANGED notDialogVars)
    \/ (InsertFails /\ UNCHANGED notDialogVars)
    \/ (OpenEdit /\ UNCHANGED notRecVars)
    \/ (OpenDelete /\ UNCHANGED notRecVars)
    \/ (CloseRecDialog /\ UNCHANGED notRecVars)
    \/ (SetEditData /\ UNCHANGED notRecVars)
    \/ (EditSave /\ UNCHANGED notRecVars)
    \/ (DeleteConfirm /\ UNCHANGED notRecVars)
    \/ (RecCallSucceeds /\ UNCHANGED notRecVars)
    \/ (RecCallFails /\ UNCHANGED notRecVars)

SpecForms == FormsInit /\ [][FormsNext]_vars

\* every call of the store is answered
FairSpecForms ==
    SpecForms
    /\ WF_vars((InsertSucceeds \/ InsertFails) /\ UNCHANGED notDialogVars)
    /\ WF_vars((RecCallSucceeds \/ RecCallFails) /\ UNCHANGED notRecVars)

----------------------------------------------------------------------------
(* Failure paths of the three forms (checked under FairSpecForms)           *)

CreatedToast == "Hora extra registrada com sucesso!"

RecSuccessToasts ==
    {"Registro atualizado com sucesso!", "Registro excluido com sucesso!"}

\* the insert of the add-entry dialog is answered
CreateAnswered == inflight' < inflight

\* a step of the add-entry dialog, a step of the component of the record
DialogStep == dialogVars' # dialogVars
RecStep == recVars' # recVars

\* a check of handleSubmit threw
CreateRejected ==
    DialogStep /\ lastSubmit' \notin {"none", "Insert", "Dropped"}

\* the update or delete of the record is answered
RecAnswered == recCall # Null /\ recCall' = Null

\* a check of handleEdit threw
EditRejected ==
    RecStep /\ recCall = Null /\ recCall' = Null /\ recToast' # "none"

\* a failed submit leaves its dialog as it is, with the values entered and
\* the calculation, shows an error, ends the loading state and makes no
\* further call
FailureKeepsForm ==
    /\ ((CreateAnswered /\ toast' # CreatedToast) \/ CreateRejected) =>
          /\ open' = open /\ form' = form
          /\ calculation' = calculation /\ lunchDiscount' = lunchDiscount
          /\ toast' # "none"
          /\ ~isLoading' /\ ~refreshed'
          /\ inflight' <= inflight /\ lastInsert' = Null
    /\ ((RecAnswered /\ recToast' \notin RecSuccessToasts) \/ EditRejected) =>
          /\ recOpen' = recOpen /\ editData' = editData
          /\ recToast' # "none"
          /\ ~recLoading' /\ ~recRefreshed'
          /\ recCall' = Null

\* a handler closes its dialog and refreshes the list only on success
ClosesOnlyOnSuccess ==
    /\ (DialogStep /\ refreshed') =>
          (CreateAnswered /\ toast' = CreatedToast /\ ~open')
    /\ (open /\ ~open' /\ toast' # "none") => refreshed'
    /\ (RecStep /\ recRefreshed') =>
          (RecAnswered /\ recToast' \in RecSuccessToasts)
    /\ (recOpen # "none" /\ recOpen' = "none" /\ recToast' # "none") =>
          recRefreshed'

\* C22: every failure path returns control to the form: for each create,
\* edit or delete submit whose store call is answered, the loading flag
\* becomes false again; on failure the dialog stays open with the values
\* entered and the calculation kept, an error is shown and the call is
\* not retried; the dialog closes and the list is refreshed only on
\* success.
C22_FailureReturnsControl ==
    /\ [][FailureKeepsForm /\ ClosesOnlyOnSuccess]_vars
    /\ (inflight > 0) ~> ~isLoading
    /\ (recCall # Null) ~> ~recLoading

\* the update of the record failed: its dialog is open on the values
\* entered, the error is shown and nothing is loading
C22_Witness ==
    /\ recToast = "Erro ao atualizar registro"
    /\ recOpen = "edit"
    /\ editData # RecordData
    /\ ~recLoading /\ recCall = Null

====
